---- MODULE Spec2Model ----
(***************************************************************************)
(* A model of demandio-notion-tools: the Notion -> Drive sync function     *)
(* (src/notion-drive-sync/main.py) and the Slack grounding monitor         *)
(* (src/slack-grounding-recommendations).                                  *)
(*                                                                         *)
(* Text is modelled as a sequence of tokens.  A token is one character     *)
(* ("a", "&", "\n", ...) or one fixed literal of the program's own         *)
(* templates ("Title: ", "<p>", ...), which no input text can contain.     *)
(* Optional values (Python's None) are the records None and Some(v).       *)
(***************************************************************************)
EXTENDS Integers, Sequences, FiniteSets, TLC

VARIABLES
    \* rendering pipeline of _perform_sync (pure part)
    page,            \* the page object returned by notion.pages.retrieve
    blocks,          \* the block tree returned by fetch_all_blocks
    prop,            \* a single property handed to _extract_property_value
    metadata_lines,  \* build_metadata(page)
    prop_value,      \* _extract_property_value(prop)
    txt_content,     \* the body of the .txt artifact
    html_str,        \* the body of the converted document
    rpc,             \* position in the pipeline
    \* the sync entry point, per invocation where it says so
    NOTION_VERIFICATION_TOKEN,  \* environment, read at import
    NOTION_PAGE_ID,             \* environment, read at import
    request,         \* per invocation: the inbound request, None before it arrives
    hpc,             \* per invocation: position of the handler
    page_id,         \* per invocation: the local page_id
    response,        \* per invocation: what the handler returned
    bg,              \* per invocation: position of the background thread
    threads_started, \* per invocation: threads started by the handler
    notion_calls,    \* per invocation: Notion API calls made, in order
    drive,           \* per invocation: artifacts created in Drive, in order
    log,             \* per invocation: what the background thread logged last
    \* the monitoring entry point
    project_id,      \* GOOGLE_CLOUD_PROJECT
    MONITORING_JOBS, \* the configured job list
    clients,         \* whether initialize_clients has returned or raised
    mpc,             \* position of monitor_notion_slack
    job_idx,         \* index of the job of the for loop
    jpc,             \* position inside process_monitoring_job
    attempted,       \* the jobs process_monitoring_job was called on, in order
    ended,           \* how each attempted job ended, in order
    pending_posts,   \* suggestions of the current job still to be posted
    posted,          \* the jobs a message was posted for, in order
    m_response,      \* what monitor_notion_slack returned
    job_calls,       \* the calls of a client made by the jobs, with their outcome
    \* parse_notion_url
    url,             \* the argument
    url_id,          \* the result
    upc,
    \* AIAnalyzer._parse_suggestions
    ai_response,     \* the argument
    suggestions,     \* the result
    ppc,
    \* the uploads of the background threads
    creds,           \* the module-level Google credentials
    dpc,             \* per unit: position in the upload part of _perform_sync
    tok,             \* per unit: the token _get_access_token returned
    sent,            \* per unit: the upload requests issued, in order
    store,           \* the artifacts in Drive, in order of creation
    dresult,         \* per unit and call: what create_drive_file returned or raised
    accesses,        \* which unit has read or written which variable or file
    \* fetch_all_blocks
    server,          \* the child lists the Notion API serves, in pages
    fail_at,         \* the number of the request that fails, 0 for none
    fetched,         \* what fetch_all_blocks returned or raised, with its requests
    uploads,         \* the artifacts the sync uploaded after the fetch, in order
    fpc,
    \* the loop over the suggestions in process_monitoring_job
    named,           \* the values the completion named, one record per suggestion
    job_page_id,     \* the local page_id
    job_suggestions, \* the local suggestions
    sugg_idx,        \* index of the suggestion of the for loop
    dm_sent,         \* the messages chat_postMessage accepted, in order
    post_results,    \* what each post_suggestion_to_user returned or raised
    npc,
    \* get_messages_from_channels and _format_messages
    channel_ids,     \* the channel list of the job
    slack,           \* what the Slack API answers, per channel
    messages,        \* the local messages of get_messages_from_channels
    api_calls,       \* the Slack requests made, in order
    printed,         \* the channels and timestamps the harvester printed an error for
    formatted,       \* the parts _format_messages joined, None before it ran
    chan_idx,        \* index of the channel of the for loop, 0 when idle
    \* the paginated loops: fetch_all_blocks step by step, and get_page_blocks
    loop,            \* which of the two functions runs
    stack,           \* the activations of fetch_all_blocks, the innermost last
    page_has_more,   \* the local has_more of get_page_blocks
    page_cursor,     \* the local start_cursor of get_page_blocks
    page_blocks,     \* the local blocks of get_page_blocks
    list_requests,   \* the blocks.children.list requests issued, in order
    list_result,     \* what the function returned or raised, None before
    prompt_blocks,   \* _format_blocks of the returned list, None before
    \* _perform_sync, step by step, against a page that is edited meanwhile
    notion_page,     \* the page as Notion holds it
    notion_tree,     \* the block tree as Notion holds it
    sync_steps,      \* the steps _perform_sync has attempted, in order
    artifacts,       \* the artifacts created in Drive, in order
    sync_pc          \* position of _perform_sync

renderVars == <<page, blocks, prop, metadata_lines, prop_value, txt_content, html_str, rpc>>

syncVars == <<NOTION_VERIFICATION_TOKEN, NOTION_PAGE_ID, request, hpc, page_id, response,
              bg, threads_started, notion_calls, drive, log>>

monitorVars == <<project_id, MONITORING_JOBS, clients, mpc, job_idx, jpc, attempted, ended, pending_posts, posted,
                 m_response, job_calls>>

urlVars == <<url, url_id, upc>>

parseVars == <<ai_response, suggestions, ppc>>

driveVars == <<creds, dpc, tok, sent, store, dresult, accesses>>

fetchVars == <<server, fail_at, fetched, uploads, fpc>>

notifyVars == <<named, job_page_id, job_suggestions, sugg_idx, dm_sent, post_results, npc>>

harvestVars == <<channel_ids, slack, messages, api_calls, printed, formatted, chan_idx>>

pagesVars == <<loop, stack, page_has_more, page_cursor, page_blocks, list_requests, list_result, prompt_blocks>>

performVars == <<notion_page, notion_tree, sync_steps, artifacts, sync_pc>>

vars == <<renderVars, syncVars, monitorVars, urlVars, parseVars, driveVars, fetchVars,
          notifyVars, harvestVars, pagesVars, performVars>>

----------------------------------------------------------------------------
(* Python values *)

None == [none |-> TRUE]
Some(v) == [none |-> FALSE, val |-> v]

\* Python truthiness of an Optional[str]
Truthy(o) == ~o.none /\ o.val # <<>>

NL == "\n"

RECURSIVE Join(_, _)
\* sep.join(parts)
Join(sep, parts) ==
    IF parts = <<>> THEN <<>>
    ELSE IF Len(parts) = 1 THEN parts[1]
    ELSE parts[1] \o sep \o Join(sep, Tail(parts))

RECURSIVE Replace(_, _, _)
\* s.replace(c, r) for a one-character c
Replace(s, c, r) ==
    IF s = <<>> THEN <<>>
    ELSE (IF Head(s) = c THEN r ELSE <<Head(s)>>) \o Replace(Tail(s), c, r)

RECURSIVE Flatten(_)
\* "".join(parts)
Flatten(parts) == IF parts = <<>> THEN <<>> ELSE Head(parts) \o Flatten(Tail(parts))

\* the cased characters of the model's alphabet
LowerCase ==
    <<"a", "b", "c", "d", "e", "f", "g", "h", "i", "j", "k", "l", "m", "n", "o", "p", "q", "r", "s", "t", "u", "v", "w", "x", "y", "z">>
UpperCase ==
    <<"A", "B", "C", "D", "E", "F", "G", "H", "I", "J", "K", "L", "M", "N", "O", "P", "Q", "R", "S", "T", "U", "V", "W", "X", "Y", "Z">>
Range(f) == {f[i] : i \in DOMAIN f}
Lower == [c \in Range(UpperCase) |-> LowerCase[CHOOSE i \in DOMAIN UpperCase : UpperCase[i] = c]]
Upper == [c \in Range(LowerCase) |-> UpperCase[CHOOSE i \in DOMAIN LowerCase : LowerCase[i] = c]]
IsCased(c) == c \in DOMAIN Lower \/ c \in DOMAIN Upper

ToUpper(c) == IF c \in DOMAIN Upper THEN Upper[c] ELSE c
ToLower(c) == IF c \in DOMAIN Lower THEN Lower[c] ELSE c

\* s.upper()
StrUpper(s) == [i \in DOMAIN s |-> ToUpper(s[i])]

\* s.lower()
StrLower(s) == [i \in DOMAIN s |-> ToLower(s[i])]

\* s.title(): a cased character is upper-cased after an uncased one (or at the
\* start) and lower-cased after a cased one
StrTitle(s) ==
    [i \in DOMAIN s |->
        IF i > 1 /\ IsCased(s[i - 1]) THEN ToLower(s[i]) ELSE ToUpper(s[i])]

Whitespace == {" ", NL}

RECURSIVE LStrip(_, _)
LStrip(s, set) == IF s # <<>> /\ Head(s) \in set THEN LStrip(Tail(s), set) ELSE s

RECURSIVE RStrip(_, _)
RStrip(s, set) ==
    IF s # <<>> /\ s[Len(s)] \in set THEN RStrip(SubSeq(s, 1, Len(s) - 1), set) ELSE s

\* s.strip() and s.strip(chars)
Strip(s, set) == RStrip(LStrip(s, set), set)

----------------------------------------------------------------------------
(* src/notion-drive-sync/main.py: Notion helpers *)

_extract_rich_text(rt_array) ==
    Flatten([i \in DOMAIN rt_array |-> rt_array[i].plain_text])

\* dict.get on the ordered property mapping, kept as a sequence of
\* [name, prop] entries with distinct names
PropGet(properties, k) ==
    IF \E i \in DOMAIN properties : properties[i].name = k
    THEN properties[CHOOSE i \in DOMAIN properties : properties[i].name = k].prop
    ELSE None

TitleKeys == << <<"T", "i", "t", "l", "e">>, <<"N", "a", "m", "e">>,
                <<"t", "i", "t", "l", "e">>, <<"n", "a", "m", "e">> >>

RECURSIVE TitleFrom(_, _)
TitleFrom(pg, i) ==
    IF i > Len(TitleKeys) THEN <<"Untitled_">> \o SubSeq(pg.id, 1, 8)
    ELSE LET p == PropGet(pg.properties, TitleKeys[i])
         IN  IF ~p.none /\ p.val.type = "title"
             THEN (IF _extract_rich_text(p.val.value) # <<>>
                   THEN _extract_rich_text(p.val.value) ELSE <<"Untitled">>)
             ELSE TitleFrom(pg, i + 1)

_extract_title(pg) == TitleFrom(pg, 1)

----------------------------------------------------------------------------
(* src/notion-drive-sync/main.py: content generators *)

\* Timestamps are one-token strings; these are the ones datetime.fromisoformat
\* accepts, every other string makes it raise ValueError.
ValidIso == {<<"2024-01-01T00:00:00Z">>, <<"2024-06-01T12:00:00Z">>}

\* strftime("%B %d, %Y %I:%M %p PT") of the instant moved to America/Los_Angeles
convert_to_la(dt) == <<"LA(">> \o dt \o <<") PT">>

DigitChars == <<"0", "1", "2", "3", "4", "5", "6", "7", "8", "9">>

\* str(n) for 0 <= n <= 9
NumStr(n) == <<DigitChars[n + 1]>>

\* str(o) inside an f-string
FmtOpt(o) == IF o.none THEN <<"None">> ELSE o.val

\* user.get("name") or user.get("id", "Unknown")
UserName(user) ==
    IF Truthy(user.name) THEN user.name.val
    ELSE IF user.id.none THEN <<"U", "n", "k", "n", "o", "w", "n">> ELSE user.id.val

RECURSIVE LastSegment(_, _)
\* s.split(c)[-1]
LastSegment(s, c) ==
    IF \E i \in DOMAIN s : s[i] = c
    THEN LastSegment(Tail(s), c)
    ELSE s

\* one file entry of a files property: the list of names it contributes
FileNames(file_obj) ==
    IF Truthy(file_obj.name) THEN <<file_obj.name.val>>
    ELSE IF ~file_obj.file.none
         THEN <<IF file_obj.file.val.url # <<>>
                THEN LastSegment(file_obj.file.val.url, "/")
                ELSE <<"Unnamed file">> >>
         ELSE <<>>

\* the checkbox rendering with its two words exchanged
YesNoSwapped(b) == IF b THEN <<"N", "o">> ELSE <<"Y", "e", "s">>

\* "Yes" if b else "No"
YesNo(b) == IF b THEN <<"Y", "e", "s">> ELSE <<"N", "o">>

\* The body of the try block of _extract_property_value for a property p with
\* a non-empty type tag; [raised |-> TRUE] stands for an exception.
ExtractByType(p) ==
    LET t == p.type
        v == p.value
        ret(o) == [raised |-> FALSE, out |-> o]
        raise == [raised |-> TRUE, out |-> None]
    IN  CASE t = "title" -> ret(Some(_extract_rich_text(v)))
          [] t = "rich_text" -> ret(Some(_extract_rich_text(v)))
          [] t = "number" -> ret(IF v.none THEN None ELSE Some(NumStr(v.val)))
          [] t = "select" -> ret(IF v.none THEN None ELSE v.val.name)
          [] t = "multi_select" ->
                ret(IF v # <<>>
                    THEN Some(Join(<<",", " ">>, [i \in DOMAIN v |-> v[i].name]))
                    ELSE None)
          [] t = "date" ->
                ret(IF v.none THEN None
                    ELSE IF Truthy(v.val.end)
                         THEN Some(FmtOpt(v.val.start) \o <<" to ">> \o v.val.end.val)
                         ELSE v.val.start)
          [] t = "checkbox" -> ret(Some(YesNo(v)))
          [] t = "url" -> ret(v)
          [] t = "email" -> ret(v)
          [] t = "phone_number" -> ret(v)
          [] t = "people" ->
                ret(IF v # <<>>
                    THEN Some(Join(<<",", " ">>, [i \in DOMAIN v |-> UserName(v[i])]))
                    ELSE None)
          [] t = "files" ->
                LET file_names == Flatten([i \in DOMAIN v |-> FileNames(v[i])])
                IN  ret(IF file_names # <<>> THEN Some(Join(<<",", " ">>, file_names))
                        ELSE None)
          [] t = "formula" ->
                ret(CASE v.type = "string" -> v.value
                      [] v.type = "number" ->
                            IF v.value.none THEN None ELSE Some(NumStr(v.value.val))
                      [] v.type = "boolean" ->
                            Some(YesNo(v.value))
                      [] v.type = "date" ->
                            IF v.value.none THEN None ELSE v.value.val.start
                      [] OTHER -> None)
          [] t = "relation" ->
                ret(IF v # <<>> THEN Some(NumStr(Len(v)) \o <<" related items">>)
                    ELSE None)
          [] t = "rollup" ->
                ret(CASE v.type = "number" ->
                            IF v.value.none THEN None ELSE Some(NumStr(v.value.val))
                      [] v.type = "array" ->
                            IF v.value # <<>>
                            THEN Some(NumStr(Len(v.value)) \o <<" items">>)
                            ELSE None
                      [] OTHER -> None)
          [] t \in {"created_time", "last_edited_time"} ->
                IF v \in ValidIso THEN ret(Some(convert_to_la(v))) ELSE raise
          [] t \in {"created_by", "last_edited_by"} -> ret(Some(UserName(v)))
          [] t = "status" -> ret(IF v.none THEN None ELSE v.val.name)
          [] OTHER -> ret(None)

\* _extract_property_value(prop): po is the Optional property object
_extract_property_value(po) ==
    IF po.none THEN None
    ELSE IF po.val.type = "" THEN None
    ELSE LET r == ExtractByType(po.val)
         IN  IF r.raised THEN None ELSE r.out

RECURSIVE PropertyLines(_), PropertyLinesNoStrip(_)
\* PropertyLines with the test "prop_value.strip()" left out
PropertyLinesNoStrip(properties) ==
    IF properties = <<>> THEN <<>>
    ELSE LET e == Head(properties)
             prop_val == _extract_property_value(e.prop)
             display_name == StrTitle(Replace(e.name, "_", <<" ">>))
         IN  (IF e.prop.val.type = "title" THEN <<>>
              ELSE IF Truthy(prop_val)
                   THEN <<display_name \o <<": ">> \o prop_val.val>>
                   ELSE <<>>)
             \o PropertyLinesNoStrip(Tail(properties))

\* the lines the loop over properties.items() appends
PropertyLines(properties) ==
    IF properties = <<>> THEN <<>>
    ELSE LET e == Head(properties)
             prop_val == _extract_property_value(e.prop)
             display_name == StrTitle(Replace(e.name, "_", <<" ">>))
         IN  (IF e.prop.val.type = "title" THEN <<>>
              ELSE IF Truthy(prop_val) /\ Strip(prop_val.val, Whitespace) # <<>>
                   THEN <<display_name \o <<": ">> \o prop_val.val>>
                   ELSE <<>>)
             \o PropertyLines(Tail(properties))

\* build_metadata raises when a property object is null (prop_data.get on
\* None) or a page-level timestamp does not parse
MetadataRaises(pg) ==
    \/ \E i \in DOMAIN pg.properties : pg.properties[i].prop.none
    \/ Truthy(pg.created_time) /\ pg.created_time.val \notin ValidIso
    \/ Truthy(pg.last_edited_time) /\ pg.last_edited_time.val \notin ValidIso

\* build_metadata with the properties header written for every page
build_metadata_header_always(pg, now) ==
    IF MetadataRaises(pg) THEN [raised |-> TRUE, lines |-> <<>>]
    ELSE [raised |-> FALSE, lines |->
            << <<"Title: ">> \o _extract_title(pg),
               <<"Notion Page ID: ">> \o pg.id,
               <<"Last Synced: ">> \o convert_to_la(now) >>
            \o << <<>>, <<"== Page Properties ==">> >>
            \o PropertyLines(pg.properties)
            \o << <<>>, <<"== Page Info ==">> >>
            \o (IF Truthy(pg.created_time)
                THEN << <<"Created: ">> \o convert_to_la(pg.created_time.val) >>
                ELSE <<>>)
            \o (IF Truthy(pg.last_edited_time)
                THEN << <<"Last Edited: ">> \o convert_to_la(pg.last_edited_time.val) >>
                ELSE <<>>)
            \o (IF ~pg.created_by.none
                THEN << <<"Created By: ">> \o UserName(pg.created_by.val) >>
                ELSE <<>>)
            \o (IF ~pg.last_edited_by.none
                THEN << <<"Last Edited By: ">> \o UserName(pg.last_edited_by.val) >>
                ELSE <<>>)
            \o (IF Truthy(pg.url) THEN << <<"Notion URL: ">> \o pg.url.val >> ELSE <<>>)
            \o << <<"---">> >>]

\* build_metadata(page), with the clock reading datetime.utcnow() as now
build_metadata(pg, now) ==
    IF MetadataRaises(pg) THEN [raised |-> TRUE, lines |-> <<>>]
    ELSE [raised |-> FALSE, lines |->
            << <<"Title: ">> \o _extract_title(pg),
               <<"Notion Page ID: ">> \o pg.id,
               <<"Last Synced: ">> \o convert_to_la(now) >>
            \o (IF pg.properties # <<>>
                THEN << <<>>, <<"== Page Properties ==">> >>
                     \o PropertyLines(pg.properties)
                ELSE <<>>)
            \o << <<>>, <<"== Page Info ==">> >>
            \o (IF Truthy(pg.created_time)
                THEN << <<"Created: ">> \o convert_to_la(pg.created_time.val) >>
                ELSE <<>>)
            \o (IF Truthy(pg.last_edited_time)
                THEN << <<"Last Edited: ">> \o convert_to_la(pg.last_edited_time.val) >>
                ELSE <<>>)
            \o (IF ~pg.created_by.none
                THEN << <<"Created By: ">> \o UserName(pg.created_by.val) >>
                ELSE <<>>)
            \o (IF ~pg.last_edited_by.none
                THEN << <<"Last Edited By: ">> \o UserName(pg.last_edited_by.val) >>
                ELSE <<>>)
            \o (IF Truthy(pg.url) THEN << <<"Notion URL: ">> \o pg.url.val >> ELSE <<>>)
            \o << <<"---">> >>]

----------------------------------------------------------------------------
(* src/notion-drive-sync/main.py: renderers.  A block is                   *)
(* [id, type, rich_text, children]; children = <<>> when the block has no  *)
(* "children" key (fetch_all_blocks sets it only under has_children).      *)

\* PlainLine without the branch for the headings
PlainLineHeadingVerbatim(blk) ==
    LET typ == blk.type
        content == IF typ # "divider" THEN _extract_rich_text(blk.rich_text)
                   ELSE <<"-", "-", "-">>
    IN  CASE typ = "bulleted_list_item" -> <<"-", " ">> \o content
          [] typ = "numbered_list_item" -> <<"1", ".", " ">> \o content
          [] typ = "quote" -> <<">", " ">> \o content
          [] typ = "divider" -> <<NL, "-", "-", "-", NL>>
          [] OTHER -> content

\* the line blocks_to_plaintext appends for one block
PlainLine(blk) ==
    LET typ == blk.type
        content == IF typ # "divider" THEN _extract_rich_text(blk.rich_text)
                   ELSE <<"-", "-", "-">>
    IN  CASE typ \in {"heading_1", "heading_2", "heading_3"} -> StrUpper(content)
          [] typ = "bulleted_list_item" -> <<"-", " ">> \o content
          [] typ = "numbered_list_item" -> <<"1", ".", " ">> \o content
          [] typ = "quote" -> <<">", " ">> \o content
          [] typ = "code" -> content
          [] typ = "divider" -> <<NL, "-", "-", "-", NL>>
          [] OTHER -> content

RECURSIVE blocks_to_plaintext(_), PlainParts(_), PlainPartsChildrenFirst(_)
\* PlainParts with the recursion placed before the block's own line
PlainPartsChildrenFirst(blks) ==
    IF blks = <<>> THEN <<>>
    ELSE LET blk == Head(blks)
         IN  (IF blk.children # <<>> THEN <<blocks_to_plaintext(blk.children)>>
              ELSE <<>>)
             \o <<PlainLine(blk)>>
             \o PlainPartsChildrenFirst(Tail(blks))

\* the list "lines" after the loop over blks
PlainParts(blks) ==
    IF blks = <<>> THEN <<>>
    ELSE LET blk == Head(blks)
         IN  <<PlainLine(blk)>>
             \o (IF blk.children # <<>> THEN <<blocks_to_plaintext(blk.children)>>
                 ELSE <<>>)
             \o PlainParts(Tail(blks))

blocks_to_plaintext(blks) == Join(<<NL>>, PlainParts(blks))

AMP == <<"&", "a", "m", "p", ";">>
LT == <<"&", "l", "t", ";">>
GT == <<"&", "g", "t", ";">>
QUOT == <<"&", "q", "u", "o", "t", ";">>
APOS == <<"&", "#", "3", "9", ";">>

\* html_escape without the replacement of the apostrophe
html_escape_no_apos(s) ==
    Replace(Replace(Replace(Replace(s, "&", AMP), "<", LT), ">", GT), "\"", QUOT)

html_escape(s) ==
    Replace(Replace(Replace(Replace(Replace(s, "&", AMP), "<", LT), ">", GT),
                    "\"", QUOT), "'", APOS)

\* the wrapper tags of blocks_to_html, by block type
HtmlWrap ==
    [paragraph |-> <<"<p>", "</p>">>,
     heading_1 |-> <<"<h1>", "</h1>">>,
     heading_2 |-> <<"<h2>", "</h2>">>,
     heading_3 |-> <<"<h3>", "</h3>">>,
     bulleted_list_item |-> <<"<ul><li>", "</li></ul>">>,
     numbered_list_item |-> <<"<ol><li>", "</li></ol>">>,
     code |-> <<"<pre><code>", "</code></pre>">>,
     quote |-> <<"<blockquote>", "</blockquote>">>]

\* HtmlOwn with a final else that writes a paragraph
HtmlOwnElseParagraph(blk) ==
    IF blk.type \in DOMAIN HtmlWrap
    THEN << <<HtmlWrap[blk.type][1]>> \o html_escape(_extract_rich_text(blk.rich_text))
            \o <<HtmlWrap[blk.type][2]>> >>
    ELSE IF blk.type = "divider" THEN << <<"<hr />">> >>
    ELSE << <<"<p>">> \o html_escape(_extract_rich_text(blk.rich_text)) \o <<"</p>">> >>

\* the parts blocks_to_html appends for the block itself (none for a type it
\* does not know)
HtmlOwn(blk) ==
    IF blk.type \in DOMAIN HtmlWrap
    THEN << <<HtmlWrap[blk.type][1]>> \o html_escape(_extract_rich_text(blk.rich_text))
            \o <<HtmlWrap[blk.type][2]>> >>
    ELSE IF blk.type = "divider" THEN << <<"<hr />">> >>
    ELSE <<>>

RECURSIVE blocks_to_html(_), HtmlParts(_)
\* the list "parts" after the loop over blks
HtmlParts(blks) ==
    IF blks = <<>> THEN <<>>
    ELSE LET blk == Head(blks)
         IN  HtmlOwn(blk)
             \o (IF blk.children # <<>> THEN <<blocks_to_html(blk.children)>> ELSE <<>>)
             \o HtmlParts(Tail(blks))

blocks_to_html(blks) == Join(<<NL>>, HtmlParts(blks))

\* the <p> elements of the metadata lines, the delimiter line left out
RECURSIVE MetaParagraphs(_)
MetaParagraphs(lines) ==
    IF lines = <<>> THEN <<>>
    ELSE (IF Head(lines) # <<"---">>
          THEN << <<"<p>">> \o html_escape(Head(lines)) \o <<"</p>">> >>
          ELSE <<>>)
         \o MetaParagraphs(Tail(lines))

assemble_html(lines, blks) ==
    <<"<!DOCTYPE html><html><head><meta charset='utf-8'><title>">>
    \o html_escape(lines[1])
    \o <<"</title>", "<style>", "STYLE", "</style></head><body><div class='metadata'>">>
    \o Join(<<NL>>, MetaParagraphs(lines))
    \o <<"</div>">>
    \o blocks_to_html(blks)
    \o <<"</body></html>">>

----------------------------------------------------------------------------
(* Inputs of the rendering pipeline *)

MaxNodes == 3    \* nodes in a generated block tree
MaxProps == 2    \* properties on a generated page

Span(s) == [plain_text |-> s]

Block(typ, rt, ch) == [id |-> <<"b">>, type |-> typ, rich_text |-> rt, children |-> ch]

\* the (type, rich text) pairs the generated trees are built from; to_do is a
\* type neither renderer knows
NodeKinds ==
    { <<"paragraph", <<Span(<<"a">>)>> >>,
      <<"heading_1", <<Span(<<"b", "&">>), Span(<<"<">>)>> >>,
      <<"bulleted_list_item", <<>> >>,
      <<"to_do", <<Span(<<"b">>)>> >>,
      <<"divider", <<>> >> }

RECURSIVE ForestsOf(_)
\* every ordered forest of exactly n nodes
ForestsOf(n) ==
    IF n = 0 THEN {<<>>}
    ELSE UNION { { <<Block(k[1], k[2], ch)>> \o rest :
                     k \in NodeKinds, ch \in ForestsOf(j), rest \in ForestsOf(n - 1 - j) } :
                 j \in 0..(n - 1) }

AllBlockTypes ==
    {"paragraph", "heading_1", "heading_2", "heading_3", "bulleted_list_item",
     "numbered_list_item", "code", "quote", "divider", "to_do", "callout"}

\* one block of every type, with a text holding all five reserved characters
SingleBlocks ==
    { <<Block(t, IF t = "divider" THEN <<>>
                 ELSE <<Span(<<"a", "&", "<", ">", "\"", "'">>)>>, <<>>)>> :
      t \in AllBlockTypes }

\* the two-node document of the spec's end-to-end scenario
TitleBody ==
    << Block("heading_1", <<Span(<<"T", "i", "t", "l", "e">>)>>, <<>>),
       Block("paragraph", <<Span(<<"B", "o", "d", "y">>)>>, <<>>) >>

\* the heading of the spec's escaping example
QandA == << Block("heading_2", <<Span(<<"Q", "&", "A", ":", " ", "A", "<", "B">>)>>, <<>>) >>

\* an item of a type neither renderer knows, with two children
UnknownParent ==
    << Block("callout", <<Span(<<"n">>)>>,
             << Block("numbered_list_item", <<Span(<<"x">>)>>, <<>>),
                Block("quote", <<Span(<<"y">>)>>, <<>>) >>),
       Block("code", <<Span(<<"z">>)>>, <<>>) >>

Trees(max) ==
    (UNION {ForestsOf(n) : n \in 0..max}) \cup SingleBlocks \cup {TitleBody, QandA, UnknownParent}

Name_ == <<"N", "a", "m", "e">>
PropNames == <<Name_, <<"a", "_", "b">>, <<"b", " ", "A">>, <<"B">>>>

User(nm, id) == [name |-> nm, id |-> id]
Prop(t, v) == Some([type |-> t, value |-> v])

\* sample properties, one or more of each shape the dispatch distinguishes
PropSamples ==
    { Prop("title", <<Span(<<"a", "'", "\"">>), Span(<<">">>)>>),
      Prop("title", <<>>),
      Prop("rich_text", <<Span(<<"a", "&", "l", "t", ";">>)>>),
      Prop("rich_text", <<Span(<<" ">>), Span(<<NL>>)>>),
      Prop("rich_text", <<>>),
      Prop("number", Some(7)),
      Prop("number", None),
      Prop("select", Some([name |-> Some(<<"a">>)])),
      Prop("multi_select", << [name |-> <<"a">>], [name |-> <<"b">>] >>),
      Prop("multi_select", << [name |-> <<"b">>], [name |-> <<"a">>] >>),
      Prop("multi_select", <<>>),
      Prop("date", None),
      Prop("date", Some([start |-> Some(<<"d1">>), end |-> None])),
      Prop("date", Some([start |-> Some(<<"d1">>), end |-> Some(<<"d2">>)])),
      Prop("checkbox", TRUE),
      Prop("checkbox", FALSE),
      Prop("url", Some(<<" ">>)),
      Prop("url", None),
      Prop("people", << User(Some(<<"a">>), Some(<<"u1">>)), User(None, Some(<<"u2">>)) >>),
      Prop("files", << [name |-> None, file |-> Some([url |-> <<"h", "/", "a">>])] >>),
      Prop("formula", [type |-> "boolean", value |-> TRUE]),
      Prop("formula", [type |-> "string", value |-> Some(<<>>)]),
      Prop("relation", << <<"r1">>, <<"r2">> >>),
      Prop("rollup", [type |-> "array", value |-> <<>>]),
      Prop("created_time", <<"2024-01-01T00:00:00Z">>),
      Prop("last_edited_time", <<>>),
      Prop("created_by", User(None, None)),
      Prop("status", Some([name |-> Some(<<"b">>)])),
      Prop("button", <<>>),
      Prop("", <<>>) }

RECURSIVE PropertyLists(_)
\* every property mapping of k entries, named PropNames[1..k]
PropertyLists(k) ==
    IF k = 0 THEN {<<>>}
    ELSE { ps \o <<[name |-> PropNames[k], prop |-> pr]>> :
             ps \in PropertyLists(k - 1), pr \in PropSamples }

\* the page-level audit fields, some present and some not
PageInfos ==
    { [created_time |-> None, last_edited_time |-> None, created_by |-> None,
       last_edited_by |-> None, url |-> None],
      [created_time |-> Some(<<"2024-01-01T00:00:00Z">>),
       last_edited_time |-> Some(<<"2024-06-01T12:00:00Z">>),
       created_by |-> Some(User(Some(<<"a">>), Some(<<"u1">>))),
       last_edited_by |-> Some(User(None, Some(<<"u2">>))),
       url |-> Some(<<"h", "/", "a">>)],
      [created_time |-> None, last_edited_time |-> Some(<<"2024-01-01T00:00:00Z">>),
       created_by |-> None, last_edited_by |-> Some(User(None, None)),
       url |-> Some(<<"h">>)] }

PageId == <<"1", "2", "3", "4", "5", "6", "7", "8", "9", "0">>

MkPage(ps, info) ==
    [id |-> PageId, properties |-> ps, created_time |-> info.created_time,
     last_edited_time |-> info.last_edited_time, created_by |-> info.created_by,
     last_edited_by |-> info.last_edited_by, url |-> info.url]

\* pages one property of which is null: "P": None
NullPropPages ==
    { MkPage(<< [name |-> PropNames[2], prop |-> None],
                [name |-> PropNames[3], prop |-> pr] >>, info) :
        pr \in {Prop("number", Some(7)), Prop("button", <<>>)}, info \in PageInfos }
    \cup { MkPage(<< [name |-> PropNames[2], prop |-> Prop("number", Some(7))],
                     [name |-> PropNames[3], prop |-> None] >>, info) : info \in PageInfos }

MetaPages(max) ==
    { MkPage(ps, info) : ps \in UNION {PropertyLists(k) : k \in 0..max},
                         info \in PageInfos }
    \cup NullPropPages

NoInfo == CHOOSE info \in PageInfos : info.url.none

\* the pages the renderers are run on: a title and a text property holding
\* reserved characters, and a page without properties
RenderPages ==
    { MkPage(<< [name |-> Name_, prop |-> Prop("title", <<Span(<<"a", "'", "\"">>), Span(<<">">>)>>)],
                [name |-> PropNames[2], prop |-> Prop("rich_text", <<Span(<<"a", "&", "l", "t", ";">>)>>)] >>,
             CHOOSE info \in PageInfos : ~info.created_time.none),
      MkPage(<<>>, NoInfo) }

UtcNow == <<"2024-06-01T12:00:00Z">>

IdlePage == MkPage(<<>>, NoInfo)

----------------------------------------------------------------------------
(* Each specification exercises one part of the program; these are the     *)
(* values the variables of the other parts keep meanwhile.                 *)

NumRequests == 1   \* invocations of the sync entry point
NumJobs == 2       \* entries of MONITORING_JOBS

Requests == 1..NumRequests

RenderIdle ==
    /\ page = None /\ blocks = <<>> /\ prop = None /\ metadata_lines = <<>>
    /\ prop_value = None /\ txt_content = <<>> /\ html_str = <<>> /\ rpc = "idle"

SyncIdle ==
    /\ NOTION_VERIFICATION_TOKEN = <<>>
    /\ NOTION_PAGE_ID = None
    /\ request = [i \in Requests |-> None]
    /\ hpc = [i \in Requests |-> "idle"]
    /\ page_id = [i \in Requests |-> None]
    /\ response = [i \in Requests |-> None]
    /\ bg = [i \in Requests |-> "none"]
    /\ threads_started = [i \in Requests |-> 0]
    /\ notion_calls = [i \in Requests |-> <<>>]
    /\ drive = [i \in Requests |-> <<>>]
    /\ log = [i \in Requests |-> None]

MonitorIdle ==
    /\ project_id = None /\ MONITORING_JOBS = <<>> /\ clients = "none"
    /\ mpc = "idle" /\ job_idx = 0 /\ jpc = "idle"
    /\ attempted = <<>> /\ ended = <<>> /\ pending_posts = 0 /\ posted = <<>>
    /\ m_response = None /\ job_calls = <<>>

UrlIdle == url = <<>> /\ url_id = None /\ upc = "idle"

ParseIdle == ai_response = <<>> /\ suggestions = <<>> /\ ppc = "idle"

DriveIdle ==
    /\ creds = [token |-> None, expired |-> FALSE]
    /\ dpc = <<>> /\ tok = <<>> /\ sent = <<>> /\ store = <<>> /\ dresult = <<>>
    /\ accesses = {}

FetchIdle ==
    server = <<>> /\ fail_at = 0 /\ fetched = None /\ uploads = <<>> /\ fpc = "idle"

NotifyIdle ==
    /\ named = <<>> /\ job_page_id = <<>> /\ job_suggestions = <<>> /\ sugg_idx = 0
    /\ dm_sent = <<>> /\ post_results = <<>> /\ npc = "idle"

HarvestIdle ==
    /\ channel_ids = <<>> /\ slack = <<>> /\ messages = <<>> /\ api_calls = <<>>
    /\ printed = <<>> /\ formatted = None /\ chan_idx = 0

PagesIdle ==
    /\ loop = "none" /\ stack = <<>> /\ page_has_more = TRUE /\ page_cursor = None
    /\ page_blocks = <<>> /\ list_requests = <<>> /\ list_result = None /\ prompt_blocks = None

PerformIdle ==
    /\ notion_page = None /\ notion_tree = <<>> /\ sync_steps = <<>> /\ artifacts = <<>>
    /\ sync_pc = "idle"

----------------------------------------------------------------------------
(* The pure part of _perform_sync (main.py lines 447-463), one step each *)

BuildMetadata ==
    /\ rpc = "meta"
    /\ LET r == build_metadata(page, UtcNow)
       IN  /\ metadata_lines' = r.lines
           /\ rpc' = IF r.raised THEN "failed" ELSE "txt"
    /\ UNCHANGED <<page, blocks, prop, prop_value, txt_content, html_str>>
    /\ UNCHANGED <<syncVars, monitorVars, urlVars, parseVars, driveVars, fetchVars, notifyVars, harvestVars, pagesVars, performVars>>

RenderTxt ==
    /\ rpc = "txt"
    /\ txt_content' = Join(<<NL>>, metadata_lines) \o <<NL, NL>> \o blocks_to_plaintext(blocks)
    /\ rpc' = "html"
    /\ UNCHANGED <<page, blocks, prop, prop_value, metadata_lines, html_str>>
    /\ UNCHANGED <<syncVars, monitorVars, urlVars, parseVars, driveVars, fetchVars, notifyVars, harvestVars, pagesVars, performVars>>

RenderHtml ==
    /\ rpc = "html"
    /\ html_str' = assemble_html(metadata_lines, blocks)
    /\ rpc' = "done"
    /\ UNCHANGED <<page, blocks, prop, prop_value, metadata_lines, txt_content>>
    /\ UNCHANGED <<syncVars, monitorVars, urlVars, parseVars, driveVars, fetchVars, notifyVars, harvestVars, pagesVars, performVars>>

ExtractProperty ==
    /\ rpc = "extract"
    /\ prop_value' = _extract_property_value(prop)
    /\ rpc' = "extracted"
    /\ UNCHANGED <<page, blocks, prop, metadata_lines, txt_content, html_str>>
    /\ UNCHANGED <<syncVars, monitorVars, urlVars, parseVars, driveVars, fetchVars, notifyVars, harvestVars, pagesVars, performVars>>

InitRender ==
    /\ SyncIdle /\ MonitorIdle /\ UrlIdle /\ ParseIdle /\ DriveIdle /\ FetchIdle /\ NotifyIdle /\ HarvestIdle /\ PagesIdle /\ PerformIdle
    /\ page \in RenderPages
    /\ blocks \in Trees(MaxNodes)
    /\ prop = None
    /\ prop_value = None
    /\ metadata_lines = <<>>
    /\ txt_content = <<>>
    /\ html_str = <<>>
    /\ rpc = "meta"

InitMeta ==
    /\ SyncIdle /\ MonitorIdle /\ UrlIdle /\ ParseIdle /\ DriveIdle /\ FetchIdle /\ NotifyIdle /\ HarvestIdle /\ PagesIdle /\ PerformIdle
    /\ blocks = <<>>
    /\ prop_value = None
    /\ metadata_lines = <<>>
    /\ txt_content = <<>>
    /\ html_str = <<>>
    /\ \/ page \in MetaPages(MaxProps) /\ prop = None /\ rpc = "meta"
       \/ page = IdlePage /\ prop \in PropSamples \cup {None} /\ rpc = "extract"

NextRender == BuildMetadata \/ RenderTxt \/ RenderHtml

NextMeta == BuildMetadata \/ ExtractProperty

SpecRender == InitRender /\ [][NextRender]_vars

SpecMeta == InitMeta /\ [][NextMeta]_vars

----------------------------------------------------------------------------
(* Document order *)

RECURSIVE PreOrder(_)
\* the nodes of a forest in depth-first pre-order, by a work list: take the
\* first node, then its children go in front of what is left
PreOrder(work) ==
    IF work = <<>> THEN <<>>
    ELSE <<Head(work)>> \o PreOrder(Head(work).children \o Tail(work))

FirstIndex(s, t) == CHOOSE i \in DOMAIN s : s[i] = t /\ \A j \in 1..(i - 1) : s[j] # t

\* the part of the assembled document that blocks_to_html produced
HtmlBody(h) == SubSeq(h, FirstIndex(h, "</div>") + 1, Len(h) - 1)

\* the part of the text artifact that blocks_to_plaintext produced
TxtBody(t, lines) == SubSeq(t, Len(Join(<<NL>>, lines)) + 3, Len(t))

\* the plain-text outputs of the nodes in document order
PlainOutputs(blks) == LET po == PreOrder(blks) IN [i \in DOMAIN po |-> PlainLine(po[i])]

\* the HTML outputs of the nodes that have one, in document order
HtmlOutputs(blks) == LET po == PreOrder(blks) IN Flatten([i \in DOMAIN po |-> HtmlOwn(po[i])])

\* a node whose child list is not empty and holds only childless nodes
\* without an HTML output: the render of that list is the empty string
EmptyChildRender(blk) ==
    /\ blk.children # <<>>
    /\ \A i \in DOMAIN blk.children :
          HtmlOwn(blk.children[i]) = <<>> /\ blk.children[i].children = <<>>

HtmlPieces(blks) ==
    LET po == PreOrder(blks)
    IN  Flatten([i \in DOMAIN po |->
                    HtmlOwn(po[i]) \o (IF EmptyChildRender(po[i]) THEN << <<>> >> ELSE <<>>)])

\* C1 as stated: both renders are the node outputs in depth-first pre-order,
\* joined by single newlines.
C1_SingleNewlines ==
    rpc = "done" =>
        /\ TxtBody(txt_content, metadata_lines) = Join(<<NL>>, PlainOutputs(blocks))
        /\ HtmlBody(html_str) = Join(<<NL>>, HtmlOutputs(blocks))

\* C1 (amended): both renders emit the node outputs in depth-first pre-order
\* (a node, then all its descendants, then its next sibling; siblings in list
\* order).  The plain-text outputs are joined by single newlines; so are the
\* HTML outputs, except that a node whose non-empty child list holds only
\* childless nodes of unrecognized type adds one empty piece, hence one more
\* newline, after its own output.  heading_1 'Title' + paragraph 'Body' render
\* to 'TITLE\nBody' and '<h1>Title</h1>\n<p>Body</p>'.
C1_PreOrder ==
    rpc = "done" =>
        /\ TxtBody(txt_content, metadata_lines) = Join(<<NL>>, PlainOutputs(blocks))
        /\ HtmlBody(html_str) = Join(<<NL>>, HtmlPieces(blocks))
        /\ SelectSeq(HtmlBody(html_str), LAMBDA t : t # NL) = Flatten(HtmlOutputs(blocks))
        /\ blocks = TitleBody =>
              /\ TxtBody(txt_content, metadata_lines)
                    = <<"T", "I", "T", "L", "E", NL, "B", "o", "d", "y">>
              /\ HtmlBody(html_str)
                    = <<"<h1>", "T", "i", "t", "l", "e", "</h1>", NL,
                        "<p>", "B", "o", "d", "y", "</p>">>

\* a rendered document with a nested node followed by a sibling, and one with
\* an empty child render
C1_Witness ==
    /\ rpc = "done"
    /\ Len(blocks) = 2
    /\ blocks[1].type = "paragraph"
    /\ Len(blocks[1].children) = 1
    /\ blocks[1].children[1].type = "to_do"
    /\ blocks[2].type = "heading_1"
    /\ HtmlBody(html_str) = <<"<p>", "a", "</p>", NL, NL, "<h1>", "b">> \o AMP \o LT \o <<"</h1>">>
    /\ TxtBody(txt_content, metadata_lines) = <<"a", NL, "b", NL, "B", "&", "<">>

----------------------------------------------------------------------------
(* Escaping *)

Reserved == {"&", "<", ">", "\"", "'"}

\* the five entities html_escape writes, with the character each stands for
Entities == { <<AMP, "&">>, <<LT, "<">>, <<GT, ">">>, <<QUOT, "\"">>, <<APOS, "'">> }

StartsWith(s, pre) == Len(s) >= Len(pre) /\ SubSeq(s, 1, Len(pre)) = pre

RECURSIVE Unescape(_)
\* the inverse conversion (html.unescape restricted to the five entities):
\* an entity becomes its character, everything else is kept
Unescape(s) ==
    IF s = <<>> THEN <<>>
    ELSE IF \E e \in Entities : StartsWith(s, e[1])
         THEN LET e == CHOOSE e \in Entities : StartsWith(s, e[1])
              IN  <<e[2]>> \o Unescape(SubSeq(s, Len(e[1]) + 1, Len(s)))
         ELSE <<Head(s)>> \o Unescape(Tail(s))

\* the fixed tokens of the document template and of the block wrappers
HtmlMarkup ==
    {"<!DOCTYPE html><html><head><meta charset='utf-8'><title>", "</title>", "<style>",
     "STYLE", "</style></head><body><div class='metadata'>", "</div>", "</body></html>",
     "<p>", "</p>", "<hr />"}
    \cup UNION { {HtmlWrap[t][1], HtmlWrap[t][2]} : t \in DOMAIN HtmlWrap }

\* what is left of a document when the template is taken away: the inserted text
InsertedText(h) == SelectSeq(h, LAMBDA t : t \notin HtmlMarkup /\ t # NL)

\* the text fields assemble_html inserts, in document order: the title line,
\* the metadata lines but the delimiter, the text of every block with a wrapper
TextFields(lines, blks) ==
    LET po == PreOrder(blks)
    IN  <<lines[1]>>
        \o SelectSeq(lines, LAMBDA l : l # <<"---">>)
        \o [i \in DOMAIN SelectSeq(po, LAMBDA b : b.type \in DOMAIN HtmlWrap) |->
               _extract_rich_text(SelectSeq(po, LAMBDA b : b.type \in DOMAIN HtmlWrap)[i].rich_text)]

\* C2: in the assembled HTML document every inserted text field (block text,
\* metadata lines, document title) has its five reserved characters escaped:
\* no raw < > " ' is left, every & starts one of the five entities, and
\* unescaping the inserted text gives back the original fields; for a field
\* without reserved characters unescape(html_escape(s)) = s.
C2_Escaped ==
    rpc = "done" =>
        LET txt == InsertedText(html_str)
            fields == TextFields(metadata_lines, blocks)
        IN  /\ \A i \in DOMAIN txt : txt[i] \notin (Reserved \ {"&"})
            /\ \A i \in DOMAIN txt :
                  txt[i] = "&" => \E e \in Entities : StartsWith(SubSeq(txt, i, Len(txt)), e[1])
            /\ Unescape(txt) = Flatten(fields)
            /\ \A i \in DOMAIN fields :
                  (\A j \in DOMAIN fields[i] : fields[i][j] \notin Reserved)
                      => Unescape(html_escape(fields[i])) = fields[i]

\* a document whose title and block text hold reserved characters
C2_Witness ==
    /\ rpc = "done"
    /\ page.properties # <<>>
    /\ \E i \in DOMAIN metadata_lines[1] : metadata_lines[1][i] = "'"
    /\ Len(blocks) = 1
    /\ blocks[1].type = "paragraph"
    /\ HtmlBody(html_str) = <<"<p>", "a">> \o AMP \o LT \o GT \o QUOT \o APOS \o <<"</p>">>

----------------------------------------------------------------------------
(* Metadata assembly *)

PropertiesHeader == <<"== Page Properties ==">>
InfoHeader == <<"== Page Info ==">>

DisplayName(name) == StrTitle(Replace(name, "_", <<" ">>))

\* the properties that get a line: not the title, and a value that is
\* neither missing nor blank
HasLine(e) ==
    /\ e.prop.val.type # "title"
    /\ ~_extract_property_value(e.prop).none
    /\ \E i \in DOMAIN _extract_property_value(e.prop).val :
          _extract_property_value(e.prop).val[i] \notin Whitespace

WithLine(pg) == SelectSeq(pg.properties, HasLine)

\* the labels of the page-info lines a page calls for, in the fixed order
InfoLabels(pg) ==
    LET all == << <<"Created: ", Truthy(pg.created_time)>>,
                  <<"Last Edited: ", Truthy(pg.last_edited_time)>>,
                  <<"Created By: ", ~pg.created_by.none>>,
                  <<"Last Edited By: ", ~pg.last_edited_by.none>>,
                  <<"Notion URL: ", Truthy(pg.url)>> >>
        present == SelectSeq(all, LAMBDA x : x[2])
    IN  [i \in DOMAIN present |-> present[i][1]]

\* the lines L, from position off + 1 on, are: k property lines of the
\* properties ps in order, a blank, the page-info header, the info lines
\* in order, the delimiter
TailInOrder(L, off, ps, labels) ==
    LET k == Len(ps)
    IN  /\ Len(L) = off + k + 2 + Len(labels) + 1
        /\ \A j \in 1..k : StartsWith(L[off + j], DisplayName(ps[j].name) \o <<": ">>)
        /\ L[off + k + 1] = <<>>
        /\ L[off + k + 2] = InfoHeader
        /\ \A j \in 1..Len(labels) : L[off + k + 2 + j][1] = labels[j]
        /\ L[Len(L)] = <<"---">>

HeadInOrder(L, pg) ==
    /\ Len(L) >= 3
    /\ L[1] = <<"Title: ">> \o _extract_title(pg)
    /\ L[2] = <<"Notion Page ID: ">> \o pg.id
    /\ L[3][1] = "Last Synced: "

\* C6 as stated: for every page the list is title, page id, last synced, a
\* blank, the properties header, the property lines, a blank, the page-info
\* header, the info lines present, '---'.
C6_HeaderAlways ==
    rpc = "txt" =>
        /\ HeadInOrder(metadata_lines, page)
        /\ Len(metadata_lines) >= 5
        /\ metadata_lines[4] = <<>>
        /\ metadata_lines[5] = PropertiesHeader
        /\ TailInOrder(metadata_lines, 5, WithLine(page), InfoLabels(page))

\* C6 (amended): build_metadata emits title line, page-id line, last-synced
\* line; then, only for a page that has at least one property, a blank
\* separator, the properties header and one line per non-title property with
\* a non-empty value in property order; then a blank separator, the page-info
\* header, the created, edited, created-by, edited-by and URL lines (each only
\* if present) and the delimiter '---' as the last element.
C6_FixedOrder ==
    rpc = "txt" =>
        /\ HeadInOrder(metadata_lines, page)
        /\ IF page.properties # <<>>
           THEN /\ Len(metadata_lines) >= 5
                /\ metadata_lines[4] = <<>>
                /\ metadata_lines[5] = PropertiesHeader
                /\ TailInOrder(metadata_lines, 5, WithLine(page), InfoLabels(page))
           ELSE /\ \A i \in DOMAIN metadata_lines : metadata_lines[i] # PropertiesHeader
                /\ TailInOrder(metadata_lines, 3, <<>>, InfoLabels(page))

\* a list with one property line out of two properties and some info lines
C6_Witness ==
    /\ rpc = "txt"
    /\ Len(page.properties) = 2
    /\ Len(WithLine(page)) = 1
    /\ page.created_time.none
    /\ ~page.url.none
    /\ Len(metadata_lines) = 12

\* the lines between the properties header and the blank that ends its section
PropertySection(L) ==
    IF \E i \in DOMAIN L : L[i] = PropertiesHeader
    THEN LET h == FirstIndex(L, PropertiesHeader)
             e == CHOOSE i \in (h + 1)..Len(L) :
                     L[i] = <<>> /\ \A j \in (h + 1)..(i - 1) : L[j] # <<>>
         IN  SubSeq(L, h + 1, e - 1)
    ELSE <<>>

\* the value a property line shows: what follows its ": "
ShownValue(line) == SubSeq(line, FirstIndex(line, ": ") + 1, Len(line))

\* C7: no property line of the list shows an empty or whitespace-only value,
\* and no line belongs to a property of type title; every other property
\* has its line.
C7_NoBlankValue ==
    rpc = "txt" =>
        LET section == PropertySection(metadata_lines)
        IN  /\ \A i \in DOMAIN section : Strip(ShownValue(section[i]), Whitespace) # <<>>
            /\ \A i \in DOMAIN page.properties :
                  LET e == page.properties[i]
                      shown == \E j \in DOMAIN section :
                                  StartsWith(section[j], DisplayName(e.name) \o <<": ">>)
                  IN  /\ e.prop.val.type = "title" => ~shown
                      /\ shown <=> HasLine(e)
            /\ Len(section) = Len(WithLine(page))

\* a page with a title property and a whitespace-only text property
C7_Witness ==
    /\ rpc = "txt"
    /\ Len(page.properties) = 2
    /\ page.properties[1].prop.val.type = "title"
    /\ page.properties[1].prop.val.value # <<>>
    /\ page.properties[2].prop = Prop("rich_text", <<Span(<<" ">>), Span(<<NL>>)>>)
    /\ PropertySection(metadata_lines) = <<>>
    /\ metadata_lines[5] = PropertiesHeader

\* C8: a checkbox extracts to "Yes" when true and "No" when false, a
\* multi-select to its entry names joined by ", " in entry order ("a, b"),
\* a date property with no date to None.
C8_Extract ==
    rpc = "extracted" /\ ~prop.none =>
        /\ prop.val.type = "checkbox" =>
              prop_value = Some(IF prop.val.value THEN <<"Y", "e", "s">> ELSE <<"N", "o">>)
        /\ prop = Prop("multi_select", << [name |-> <<"a">>], [name |-> <<"b">>] >>) =>
              prop_value = Some(<<"a", ",", " ", "b">>)
        /\ prop = Prop("multi_select", << [name |-> <<"b">>], [name |-> <<"a">>] >>) =>
              prop_value = Some(<<"b", ",", " ", "a">>)
        /\ prop = Prop("date", None) => prop_value = None

\* the multi-select with entries a and b has been extracted
C8_Witness ==
    /\ rpc = "extracted"
    /\ prop = Prop("multi_select", << [name |-> <<"a">>], [name |-> <<"b">>] >>)
    /\ prop_value = Some(<<"a", ",", " ", "b">>)

----------------------------------------------------------------------------
(* src/notion-drive-sync/main.py: the entry point sync_notion_to_drive.    *)
(* The handler runs up to sync_thread.start() without anything observable  *)
(* in between; from there on the handler's return and the steps of         *)
(* _perform_sync interleave, within a request and across requests.         *)

Tokens == {<<>>, <<"s">>}                     \* NOTION_VERIFICATION_TOKEN
EnvPageIds == {None, Some(<<"e", "-", "f">>)} \* NOTION_PAGE_ID

\* X-Notion-Signature; <<>> is what headers.get(..., "") gives for no header
Signatures == {<<>>, <<"s">>, <<"x">>}

\* what request.get_json(silent=True) gives: None for no or malformed JSON,
\* else the decoded value, here an object or a list
Dict(pg, id) == [kind |-> "dict", page |-> pg, id |-> id]
NoJson == [kind |-> "none", page |-> None, id |-> None]
JsonList == [kind |-> "list", page |-> None, id |-> None]
Payloads ==
    { NoJson, JsonList,
      Dict(None, None),
      Dict(Some([id |-> Some(<<"a", "-", "b">>)]), None),
      Dict(None, Some(<<"c", "-", "d">>)),
      Dict(Some([id |-> None]), Some(<<"c", "-", "d">>)) }

InvalidSignature == [body |-> <<"invalid signature">>, status |-> 200]
NoPageId == [body |-> <<"No page_id provided">>, status |-> 200]
Started ==
    [body |-> [status |-> <<"started">>, message |-> <<"Sync started successfully! ...">>],
     status |-> 200]
\* what the functions framework answers when the handler raises
InternalServerError == [body |-> <<"Internal Server Error">>, status |-> 500]

\* a or b on Optional[str]
Or(a, b) == IF Truthy(a) THEN a ELSE b

\* the handler joins the thread before it answers
may_return_after_join(i) == hpc[i] = "started" /\ bg[i] \in {"done", "failed"}

\* the handler answers right after sync_thread.start()
may_return(i) == hpc[i] = "started"

\* the signature is never compared
signature_mismatch_ignored(sig) == FALSE

\* if NOTION_VERIFICATION_TOKEN: ... if sig != NOTION_VERIFICATION_TOKEN
signature_mismatch(sig) ==
    NOTION_VERIFICATION_TOKEN # <<>> /\ sig # NOTION_VERIFICATION_TOKEN

\* payload = request.get_json(silent=True) or {}
payload_of(req) == IF req.json.kind = "none" THEN Dict(None, None) ELSE req.json

\* payload.get(...) on a list raises AttributeError
payload_raises(req) == payload_of(req).kind = "list"

\* payload.get("page", {}).get("id") or payload.get("id") or NOTION_PAGE_ID
resolve_page_id(req) ==
    LET payload == payload_of(req)
        pg == IF payload.page.none THEN [id |-> None] ELSE payload.page.val
    IN  Or(Or(pg.id, payload.id), NOTION_PAGE_ID)

\* the handler from its start to sync_thread.start() or to an early return
Receive(i, req) ==
    /\ hpc[i] = "idle"
    /\ request' = [request EXCEPT ![i] = Some(req)]
    /\ IF signature_mismatch(req.sig)
       THEN /\ response' = [response EXCEPT ![i] = Some(InvalidSignature)]
            /\ hpc' = [hpc EXCEPT ![i] = "done"]
            /\ UNCHANGED <<page_id, bg, threads_started>>
       ELSE IF payload_raises(req)
       THEN /\ response' = [response EXCEPT ![i] = Some(InternalServerError)]
            /\ hpc' = [hpc EXCEPT ![i] = "done"]
            /\ UNCHANGED <<page_id, bg, threads_started>>
       ELSE IF ~Truthy(resolve_page_id(req))
       THEN /\ response' = [response EXCEPT ![i] = Some(NoPageId)]
            /\ hpc' = [hpc EXCEPT ![i] = "done"]
            /\ UNCHANGED <<page_id, bg, threads_started>>
       ELSE /\ page_id' = [page_id EXCEPT
                               ![i] = Some(Replace(resolve_page_id(req).val, "-", <<>>))]
            /\ threads_started' = [threads_started EXCEPT ![i] = @ + 1]
            /\ bg' = [bg EXCEPT ![i] = "retrieve"]
            /\ hpc' = [hpc EXCEPT ![i] = "started"]
            /\ UNCHANGED response
    /\ UNCHANGED <<NOTION_VERIFICATION_TOKEN, NOTION_PAGE_ID, notion_calls, drive, log>>
    /\ UNCHANGED <<renderVars, monitorVars, urlVars, parseVars, driveVars, fetchVars, notifyVars, harvestVars, pagesVars, performVars>>

\* return (json.dumps({"status": "started", ...}), 200, ...)
Return(i) ==
    /\ may_return(i)
    /\ response' = [response EXCEPT ![i] = Some(Started)]
    /\ hpc' = [hpc EXCEPT ![i] = "done"]
    /\ UNCHANGED <<NOTION_VERIFICATION_TOKEN, NOTION_PAGE_ID, request, page_id, bg,
                   threads_started, notion_calls, drive, log>>
    /\ UNCHANGED <<renderVars, monitorVars, urlVars, parseVars, driveVars, fetchVars, notifyVars, harvestVars, pagesVars, performVars>>

\* except Exception as exc: logging.exception("Background sync failed: %s", exc)
BgFails(i) ==
    /\ bg' = [bg EXCEPT ![i] = "failed"]
    /\ log' = [log EXCEPT ![i] = Some(<<"Background sync failed">>)]

BgUnchanged ==
    /\ UNCHANGED <<NOTION_VERIFICATION_TOKEN, NOTION_PAGE_ID, request, hpc, page_id,
                   response, threads_started>>
    /\ UNCHANGED <<renderVars, monitorVars, urlVars, parseVars, driveVars, fetchVars, notifyVars, harvestVars, pagesVars, performVars>>

\* page = notion.pages.retrieve(page_id)
Retrieve(i, ok) ==
    /\ bg[i] = "retrieve"
    /\ notion_calls' = [notion_calls EXCEPT
                            ![i] = Append(@, [call |-> "retrieve", id |-> page_id[i].val])]
    /\ IF ok THEN bg' = [bg EXCEPT ![i] = "fetch"] /\ UNCHANGED log ELSE BgFails(i)
    /\ UNCHANGED drive
    /\ BgUnchanged

\* blocks = fetch_all_blocks(page_id)
Fetch(i, ok) ==
    /\ bg[i] = "fetch"
    /\ notion_calls' = [notion_calls EXCEPT
                            ![i] = Append(@, [call |-> "fetch", id |-> page_id[i].val])]
    /\ IF ok THEN bg' = [bg EXCEPT ![i] = "metadata"] /\ UNCHANGED log ELSE BgFails(i)
    /\ UNCHANGED drive
    /\ BgUnchanged

\* metadata_lines = build_metadata(page), which raises on some pages
Metadata(i, ok) ==
    /\ bg[i] = "metadata"
    /\ IF ok THEN bg' = [bg EXCEPT ![i] = "txt"] /\ UNCHANGED log ELSE BgFails(i)
    /\ UNCHANGED <<notion_calls, drive>>
    /\ BgUnchanged

\* create_drive_file(f"{sanitize(title)}.txt", ..., convert_to_gdoc=False)
UploadTxt(i, ok) ==
    /\ bg[i] = "txt"
    /\ IF ok
       THEN /\ drive' = [drive EXCEPT ![i] = Append(@, "txt")]
            /\ bg' = [bg EXCEPT ![i] = "gdoc"]
            /\ UNCHANGED log
       ELSE BgFails(i) /\ UNCHANGED drive
    /\ UNCHANGED notion_calls
    /\ BgUnchanged

\* gdoc_id = create_drive_file(sanitize(title), ..., convert_to_gdoc=True)
UploadGdoc(i, ok) ==
    /\ bg[i] = "gdoc"
    /\ IF ok
       THEN /\ drive' = [drive EXCEPT ![i] = Append(@, "gdoc")]
            /\ bg' = [bg EXCEPT ![i] = "done"]
            /\ log' = [log EXCEPT ![i] = Some(<<"Background sync completed">>)]
       ELSE BgFails(i) /\ UNCHANGED drive
    /\ UNCHANGED notion_calls
    /\ BgUnchanged

InitSync ==
    /\ RenderIdle /\ MonitorIdle /\ UrlIdle /\ ParseIdle /\ DriveIdle /\ FetchIdle /\ NotifyIdle /\ HarvestIdle /\ PagesIdle /\ PerformIdle
    /\ NOTION_VERIFICATION_TOKEN \in Tokens
    /\ NOTION_PAGE_ID \in EnvPageIds
    /\ request = [i \in Requests |-> None]
    /\ hpc = [i \in Requests |-> "idle"]
    /\ page_id = [i \in Requests |-> None]
    /\ response = [i \in Requests |-> None]
    /\ bg = [i \in Requests |-> "none"]
    /\ threads_started = [i \in Requests |-> 0]
    /\ notion_calls = [i \in Requests |-> <<>>]
    /\ drive = [i \in Requests |-> <<>>]
    /\ log = [i \in Requests |-> None]

NextSync ==
    \/ \E i \in Requests, sig \in Signatures, json \in Payloads :
           Receive(i, [sig |-> sig, json |-> json])
    \/ \E i \in Requests : Return(i)
    \/ \E i \in Requests, ok \in BOOLEAN : Retrieve(i, ok)
    \/ \E i \in Requests, ok \in BOOLEAN : Fetch(i, ok)
    \/ \E i \in Requests, ok \in BOOLEAN : Metadata(i, ok)
    \/ \E i \in Requests, ok \in BOOLEAN : UploadTxt(i, ok)
    \/ \E i \in Requests, ok \in BOOLEAN : UploadGdoc(i, ok)

SpecSync == InitSync /\ [][NextSync]_vars

----------------------------------------------------------------------------
(* The shared-secret check and the page id gate the background work *)

SignaturePasses(req) ==
    NOTION_VERIFICATION_TOKEN = <<>> \/ req.sig = NOTION_VERIFICATION_TOKEN

\* one of payload.page.id, payload.id and NOTION_PAGE_ID is a non-empty string
HasPageId(req) ==
    \/ req.json.kind = "dict" /\ ~req.json.page.none /\ Truthy(req.json.page.val.id)
    \/ req.json.kind = "dict" /\ Truthy(req.json.id)
    \/ Truthy(NOTION_PAGE_ID)

WorkDone(i) ==
    \/ threads_started[i] > 0
    \/ bg[i] # "none"
    \/ notion_calls[i] # <<>>
    \/ drive[i] # <<>>

\* C3: background work of a request (a started thread, a page retrieve, a
\* block fetch, an upload) exists only if the request's signature check passed
\* (no token configured, or the header equals the token) and a page id was
\* resolved; a request whose header does not match the configured token is
\* answered "invalid signature" with HTTP 200 and has no background work.
C3_Gate ==
    \A i \in Requests :
        /\ WorkDone(i) =>
              /\ ~request[i].none
              /\ SignaturePasses(request[i].val)
              /\ HasPageId(request[i].val)
        /\ (~request[i].none /\ ~SignaturePasses(request[i].val)) =>
              /\ hpc[i] = "done"
              /\ response[i] = Some(InvalidSignature)
              /\ response[i].val.status = 200
              /\ ~WorkDone(i)

\* a request that names a page but carries a wrong signature has been answered
C3_Witness ==
    \E i \in Requests :
        /\ NOTION_VERIFICATION_TOKEN = <<"s">>
        /\ request[i] = Some([sig |-> <<"x">>,
                              json |-> Dict(Some([id |-> Some(<<"a", "-", "b">>)]), None)])
        /\ response[i] = Some(InvalidSignature)

Accepted(i) ==
    /\ ~request[i].none
    /\ SignaturePasses(request[i].val)
    /\ request[i].val.json.kind # "list"
    /\ HasPageId(request[i].val)

\* C4: an accepted request has exactly one background thread; the handler can
\* return as soon as the thread is started, whatever the thread's progress;
\* what it returns is the "started" JSON body with HTTP 200, whether the
\* thread is still running, has succeeded or has failed; and a failure of the
\* thread is logged and leaves the response as it is.
C4_Detached ==
    \A i \in Requests :
        Accepted(i) =>
            /\ threads_started[i] = 1
            /\ hpc[i] = "started" => ENABLED Return(i)
            /\ hpc[i] = "started" => response[i] = None
            /\ hpc[i] = "done" => response[i] = Some(Started)
            /\ bg[i] = "failed" => log[i] = Some(<<"Background sync failed">>)

\* the handler has answered "started" and the thread has failed at the second
\* upload, after the first artifact was created
C4_Witness ==
    \E i \in Requests :
        /\ Accepted(i)
        /\ response[i] = Some(Started)
        /\ bg[i] = "failed"
        /\ drive[i] = <<"txt">>

----------------------------------------------------------------------------
(* src/slack-grounding-recommendations/utils.py: parse_notion_url.         *)
(* A URL is the sequence of its characters.                                *)

HexLower == {"0", "1", "2", "3", "4", "5", "6", "7", "8", "9", "a", "b", "c", "d", "e", "f"}

\* s.endswith(suffix)
EndsWith(s, suf) == Len(s) >= Len(suf) /\ SubSeq(s, Len(s) - Len(suf) + 1, Len(s)) = suf

Drop(s, n) == SubSeq(s, n + 1, Len(s))

\* the smallest number of a non-empty set of numbers
Min(S) == CHOOSE x \in S : \A y \in S : x <= y

\* the index of the first character of s from index from on that is in set,
\* Len(s) + 1 if none
FindChar(s, set, from) ==
    LET found == { k \in from..Len(s) : s[k] \in set }
    IN  IF found = {} THEN Len(s) + 1 ELSE Min(found)

\* s.split(c)
RECURSIVE Split(_, _)
Split(s, c) ==
    LET k == FindChar(s, {c}, 1)
    IN  IF k > Len(s) THEN <<s>>
        ELSE <<SubSeq(s, 1, k - 1)>> \o Split(Drop(s, k), c)

\* [a-f0-9]{n} at position i of s: the position after it, 0 if it does not match
HexRun(s, i, n) ==
    IF i > 0 /\ i + n - 1 <= Len(s) /\ \A k \in i..(i + n - 1) : s[k] \in HexLower
    THEN i + n ELSE 0

\* -? at position i of s; what follows is a hex class, so a hyphen that is
\* there is always taken
OptHyphen(s, i) == IF i > 0 /\ i <= Len(s) /\ s[i] = "-" THEN i + 1 ELSE i

\* the first alternative of uuid_pattern at position i: the position after the
\* match, 0 if it does not match
HyphenatedAt(s, i) ==
    LET p1 == OptHyphen(s, HexRun(s, i, 8))
        p2 == OptHyphen(s, HexRun(s, p1, 4))
        p3 == OptHyphen(s, HexRun(s, p2, 4))
        p4 == OptHyphen(s, HexRun(s, p3, 4))
    IN  HexRun(s, p4, 12)

\* the second alternative of uuid_pattern at position i
BareAt(s, i) == HexRun(s, i, 32)

\* uuid_pattern at position i: the alternatives in their order
uuid_pattern_at(s, i) ==
    IF HyphenatedAt(s, i) # 0 THEN HyphenatedAt(s, i) ELSE BareAt(s, i)

\* re.search(uuid_pattern, s): group 1 of the leftmost match, None if none
SearchFrom(s, from) ==
    LET starts == { i \in from..Len(s) : uuid_pattern_at(s, i) # 0 }
    IN  IF starts = {} THEN None
        ELSE Some(SubSeq(s, Min(starts), uuid_pattern_at(s, Min(starts)) - 1))

re_search(s) == SearchFrom(s, 1)

\* match.group(1).replace('-', '')
CleanMatch(m) == Some(Replace(m.val, "-", <<>>))

HTTP == <<"h", "t", "t", "p", ":", "/", "/">>
HTTPS == <<"h", "t", "t", "p", "s", ":", "/", "/">>
NOTION_SO == <<"n", "o", "t", "i", "o", "n", ".", "s", "o">>

\* urlparse(url) for a url that starts with http:// or https://
UrlParse(u) ==
    LET rest == Drop(u, FindChar(u, {":"}, 1) + 2)
        nEnd == FindChar(rest, {"/", "?", "#"}, 1)
        afterNet == Drop(rest, nEnd - 1)
        noFrag == SubSeq(afterNet, 1, FindChar(afterNet, {"#"}, 1) - 1)
        q == FindChar(noFrag, {"?"}, 1)
    IN  [netloc |-> SubSeq(rest, 1, nEnd - 1),
         path |-> SubSeq(noFrag, 1, q - 1),
         query |-> Drop(noFrag, q)]

\* the characters of the model's alphabet by their two hex digits
PercentCodes ==
    [c \in {<<"6", "1">>, <<"6", "2">>, <<"6", "3">>, <<"6", "4">>, <<"6", "5">>,
            <<"6", "6">>, <<"2", "d">>, <<"3", "1">>} |->
        CASE c = <<"6", "1">> -> "a" [] c = <<"6", "2">> -> "b" [] c = <<"6", "3">> -> "c"
          [] c = <<"6", "4">> -> "d" [] c = <<"6", "5">> -> "e" [] c = <<"6", "6">> -> "f"
          [] c = <<"2", "d">> -> "-" [] c = <<"3", "1">> -> "1"]

\* urllib.parse.unquote_plus on a query value: + is a space, %xx is the
\* character with that code ("~" stands for every character that is neither a
\* hex digit nor a hyphen), a % with no two hex digits after it stays
Unquote(s) ==
    LET escapes == { i \in DOMAIN s : s[i] = "%" /\ HexRun(StrLower(s), i + 1, 2) # 0 }
        code(i) == StrLower(SubSeq(s, i + 1, i + 2))
        at(i) == IF i \in escapes
                 THEN [keep |-> TRUE,
                       ch |-> IF code(i) \in DOMAIN PercentCodes
                              THEN PercentCodes[code(i)] ELSE "~"]
                 ELSE [keep |-> (i - 1) \notin escapes /\ (i - 2) \notin escapes,
                       ch |-> IF s[i] = "+" THEN " " ELSE s[i]]
        kept == SelectSeq([i \in DOMAIN s |-> at(i)], LAMBDA x : x.keep)
    IN  [i \in DOMAIN kept |-> kept[i].ch]

\* the name=value pairs of a query, in order; a field with no = or with a
\* blank value is left out (keep_blank_values=False)
QueryPairs(query) ==
    LET fields == Split(query, "&")
        pair(f) == LET k == FindChar(f, {"="}, 1)
                   IN  [name |-> Unquote(SubSeq(f, 1, k - 1)), value |-> Unquote(Drop(f, k)),
                        ok |-> k <= Len(f) /\ Drop(f, k) # <<>>]
    IN  SelectSeq([i \in DOMAIN fields |-> pair(fields[i])], LAMBDA p : p.ok)

\* the values of parse_qs(query) in the order the two loops visit them: the
\* names in the order of their first occurrence, the values of a name in
\* their order
ParseQsValues(query) ==
    LET pairs == QueryPairs(query)
        first(i) == \A j \in 1..(i - 1) : pairs[j].name # pairs[i].name
        names == SelectSeq([i \in DOMAIN pairs |-> [name |-> pairs[i].name, first |-> first(i)]],
                           LAMBDA n : n.first)
        valuesOf(n) == LET ps == SelectSeq(pairs, LAMBDA p : p.name = n)
                       IN  [i \in DOMAIN ps |-> ps[i].value]
    IN  Flatten([i \in DOMAIN names |-> valuesOf(names[i].name)])

\* the first match in a list of strings, each searched lower-cased
RECURSIVE FirstMatch(_)
FirstMatch(parts) ==
    IF parts = <<>> THEN None
    ELSE IF ~re_search(StrLower(Head(parts))).none
    THEN CleanMatch(re_search(StrLower(Head(parts))))
    ELSE FirstMatch(Tail(parts))

parse_notion_url(u0) ==
    IF u0 = <<>> THEN None
    ELSE
    LET stripped == Strip(u0, Whitespace)
        u == IF StartsWith(stripped, HTTP) \/ StartsWith(stripped, HTTPS)
             THEN stripped ELSE HTTPS \o stripped
        whole == re_search(StrLower(u))
        parsed == UrlParse(u)
        path_parts == SelectSeq(Split(parsed.path, "/"), LAMBDA p : p # <<>>)
        in_path == FirstMatch(path_parts)
    IN  IF ~whole.none THEN CleanMatch(whole)
        ELSE IF ~EndsWith(parsed.netloc, NOTION_SO) THEN None
        ELSE IF ~in_path.none THEN in_path
        ELSE FirstMatch(ParseQsValues(parsed.query))

\* the ids and the pieces the URLs are made of
Id1 == <<"c", "2", "e", "b", "1", "2", "4", "1", "e", "b", "b", "f", "4", "f", "3", "9", "a", "c", "c", "1", "a", "c", "7", "1", "6", "d", "a", "e", "0", "3", "f", "7">>
Id2 == <<"2", "0", "6", "a", "1", "4", "c", "b", "e", "d", "0", "0", "8", "0", "a", "2", "a", "b", "c", "3", "e", "1", "a", "3", "a", "5", "1", "d", "8", "4", "5", "0">>
Id3 == <<"1", "d", "4", "a", "1", "4", "c", "b", "e", "d", "0", "0", "8", "0", "5", "f", "b", "b", "4", "9", "0", "0", "0", "c", "b", "b", "1", "7", "b", "0", "3", "7">>
Uuid1 == <<"2", "1", "a", "a", "1", "4", "c", "b", "-", "e", "d", "0", "0", "-", "8", "0", "3", "a", "-", "a", "9", "0", "1", "-", "e", "7", "d", "d", "1", "8", "1", "1", "0", "0", "8", "4">>

UrlLeads == {<<>>, <<" ">>}
UrlSchemes == {<<>>, HTTPS}
UrlHosts == {<<"w", "w", "w", ".">> \o NOTION_SO, <<"e", "x", "a", "m", "p", "l", "e", ".", "c", "o", "m">>}
UrlPaths ==
    { <<>>,
      <<"/", "d", "e", "m", "a", "n", "d", "i", "o">>,
      <<"/", "d", "e", "m", "a", "n", "d", "i", "o", "/">> \o Id1,
      <<"/", "M", "y", "-", "P", "a", "g", "e", "-">> \o Id2,
      <<"/">> \o Uuid1,
      <<"/">> \o StrUpper(Id1),
      <<"/">> \o SubSeq(Id1, 1, 31),
      <<"/">> \o Id1 \o <<"e">>,
      <<"/", "R", "e", "p", "o", "r", "t", "-", "2", "0", "2", "4", "0", "1", "0", "1", "-">> \o Id1,
      <<"/">> \o Uuid1 \o <<"/">> \o Id1 }
UrlQueries ==
    { <<>>,
      <<"?", "v", "=">> \o Id3,
      <<"?", "p", "m", "=", "s", "&", "p", "=">> \o SubSeq(Id2, 1, 16) \o <<"%", "3", "1">> \o SubSeq(Id2, 18, 32) }

Urls ==
    {<<>>} \cup
    { lead \o scheme \o host \o path \o query :
        lead \in UrlLeads, scheme \in UrlSchemes, host \in UrlHosts,
        path \in UrlPaths, query \in UrlQueries }

ParseUrl ==
    /\ upc = "call"
    /\ url_id' = parse_notion_url(url)
    /\ upc' = "done"
    /\ UNCHANGED url
    /\ UNCHANGED <<renderVars, syncVars, monitorVars, parseVars, driveVars, fetchVars, notifyVars, harvestVars, pagesVars, performVars>>

InitUrl ==
    /\ RenderIdle /\ SyncIdle /\ MonitorIdle /\ ParseIdle /\ DriveIdle /\ FetchIdle /\ NotifyIdle /\ HarvestIdle /\ PagesIdle /\ PerformIdle
    /\ url \in Urls
    /\ url_id = None
    /\ upc = "call"

NextUrl == ParseUrl

SpecUrl == InitUrl /\ [][NextUrl]_vars

----------------------------------------------------------------------------
(* What parse_notion_url finds *)

IsHex(c) == ToLower(c) \in HexLower

\* the 32-character substrings of u that are hex digits throughout
Hex32Substrings(u) ==
    { SubSeq(u, i, i + 31) : i \in { j \in 1..(Len(u) - 31) : \A k \in j..(j + 31) : IsHex(u[k]) } }

\* the URL without surrounding whitespace, the scheme supplied if there is none
Normalised(u) ==
    LET s == Strip(u, Whitespace)
    IN  IF StartsWith(s, HTTP) \/ StartsWith(s, HTTPS) THEN s ELSE HTTPS \o s

HostOf(u) == UrlParse(Normalised(u)).netloc

QueryOf(u) == UrlParse(Normalised(u)).query

\* C9 as stated: a URL that contains a bare 32-hex-character substring gets
\* that substring back, and a URL with no such substring and a host other than
\* notion.so gets no id.
C9_Hex32 ==
    upc = "done" =>
        /\ Hex32Substrings(url) # {} =>
              ~url_id.none /\ url_id.val \in Hex32Substrings(url)
        /\ (Hex32Substrings(url) = {} /\ ~EndsWith(HostOf(url), NOTION_SO)) =>
              url_id = None

\* s is an id: 32 lower-case hex digits, bare or with single hyphens that
\* stand after the 8th, 12th, 16th or 20th digit
IdForm(s) ==
    /\ Len(Replace(s, "-", <<>>)) = 32
    /\ \A k \in DOMAIN s :
          IF s[k] = "-"
          THEN /\ k > 1 /\ s[k - 1] # "-"
               /\ Len(Replace(SubSeq(s, 1, k), "-", <<>>)) \in {8, 12, 16, 20}
          ELSE s[k] \in HexLower

\* the places of u where an id starts, with the id's length
IdPlaces(u) ==
    { pl \in (1..Len(u)) \X (32..36) :
        pl[1] + pl[2] - 1 <= Len(u) /\ IdForm(SubSeq(u, pl[1], pl[1] + pl[2] - 1)) }

\* the leftmost id of u with its hyphens removed
LeftmostId(u) ==
    IF IdPlaces(u) = {} THEN None
    ELSE LET pl == CHOOSE p \in IdPlaces(u) : \A q \in IdPlaces(u) : p[1] <= q[1]
         IN  Some(Replace(SubSeq(u, pl[1], pl[1] + pl[2] - 1), "-", <<>>))

\* the leftmost id of the first of the strings that has one
RECURSIVE FirstWithId(_)
FirstWithId(values) ==
    IF values = <<>> THEN None
    ELSE IF LeftmostId(StrLower(Head(values))) # None THEN LeftmostId(StrLower(Head(values)))
    ELSE FirstWithId(Tail(values))

\* What the function does find: case ignored, the leftmost id of the URL with
\* its hyphens removed, an id being 32 hex digits written bare or in
\* 8-4-4-4-12 groups with optional single hyphens between the groups, on any
\* host; a URL with no id gets None, unless its host ends with notion.so and a
\* query value holds an id once percent-decoded, which is then returned.
LeftmostIdReturned ==
    upc = "done" =>
        IF LeftmostId(StrLower(url)) # None
        THEN url_id = LeftmostId(StrLower(url))
        ELSE IF url # <<>> /\ EndsWith(HostOf(url), NOTION_SO)
        THEN url_id = FirstWithId(ParseQsValues(QueryOf(url)))
        ELSE url_id = None

\* the page URL whose title ends in a date has been parsed, and the result is
\* the date followed by the first 24 digits of the page id
C9_Witness ==
    /\ upc = "done"
    /\ url = HTTPS \o <<"w", "w", "w", ".">> \o NOTION_SO
                   \o <<"/", "R", "e", "p", "o", "r", "t", "-", "2", "0", "2", "4", "0", "1", "0", "1", "-">> \o Id1
    /\ url_id = Some(<<"2", "0", "2", "4", "0", "1", "0", "1">> \o SubSeq(Id1, 1, 24))

----------------------------------------------------------------------------
(* src/slack-grounding-recommendations/ai_analyzer.py: _parse_suggestions. *)
(* The response is the sequence of its characters.                         *)

\* s.find(sub): the 0-based index of the first occurrence, -1 if none
PyFind(s, sub) ==
    LET hits == { i \in 1..(Len(s) - Len(sub) + 1) :
                    s[i] = sub[1] /\ SubSeq(s, i, i + Len(sub) - 1) = sub }
    IN  IF hits = {} THEN -1 ELSE Min(hits) - 1

\* s[a:b] for 0-based a and b of either sign
PySlice(s, a, b) ==
    LET norm(i) == IF i < 0 THEN (IF Len(s) + i < 0 THEN 0 ELSE Len(s) + i)
                   ELSE IF i > Len(s) THEN Len(s) ELSE i
    IN  SubSeq(s, norm(a) + 1, norm(b))

\* s.split(sep)
RECURSIVE PySplit(_, _)
PySplit(s, sep) ==
    IF PyFind(s, sep) = -1 THEN <<s>>
    ELSE <<PySlice(s, 0, PyFind(s, sep))>>
         \o PySplit(PySlice(s, PyFind(s, sep) + Len(sep), Len(s)), sep)

\* str.strip() with no argument
PyWhitespace == {" ", NL, "\t", "\r"}

SENTINEL ==
    <<"N", "o", " ", "s", "u", "g", "g", "e", "s", "t", "i", "o", "n", "s", " ", "f", "o", "u", "n", "d", ".">>
SUGGESTION ==
    <<"*", "*", "S", "u", "g", "g", "e", "s", "t", "i", "o", "n">>
L_LINK ==
    <<"*", "*", "S", "o", "u", "r", "c", "e", " ", "M", "e", "s", "s", "a", "g", "e", " ", "L", "i", "n", "k", ":", "*", "*">>
L_CONTEXT ==
    <<"*", "*", "T", "h", "r", "e", "a", "d", " ", "C", "o", "n", "t", "e", "x", "t", ":", "*", "*">>
L_TEXT ==
    <<"*", "*", "T", "r", "i", "g", "g", "e", "r", "i", "n", "g", " ", "T", "e", "x", "t", ":", "*", "*">>
L_BLOCK ==
    <<"*", "*", "C", "o", "n", "f", "l", "i", "c", "t", "i", "n", "g", " ", "B", "l", "o", "c", "k", " ", "I", "D", ":", "*", "*">>
L_CONFLICT ==
    <<"*", "*", "C", "o", "n", "f", "l", "i", "c", "t", "i", "n", "g", " ", "T", "e", "x", "t", " ", "i", "n", " ", "B", "l", "o", "c", "k", ":", "*", "*">>
L_EDIT ==
    <<"*", "*", "S", "u", "g", "g", "e", "s", "t", "e", "d", " ", "E", "d", "i", "t", ":", "*", "*">>
L_REASON ==
    <<"*", "*", "R", "e", "a", "s", "o", "n", "i", "n", "g", ":", "*", "*">>
L_CONF ==
    <<"*", "*", "C", "o", "n", "f", "i", "d", "e", "n", "c", "e", " ", "S", "c", "o", "r", "e", ":", "*", "*">>

\* the character U+0060, which a string of this language cannot hold
BACKTICK == "<backtick>"
DQUOTE == "\""

\* part[start:end].strip().strip(chars)
Field(part, start, end, chars) == Strip(Strip(PySlice(part, start, end), PyWhitespace), chars)

\* the body of the loop of _parse_suggestions
parse_part(part) ==
    [ source_message_link |->
          Field(part, PyFind(part, L_LINK) + Len(L_LINK), PyFind(part, L_CONTEXT), {BACKTICK}),
      thread_context |->
          Field(part, PyFind(part, L_CONTEXT) + Len(L_CONTEXT), PyFind(part, L_TEXT), {DQUOTE}),
      triggering_text |->
          Field(part, PyFind(part, L_TEXT) + Len(L_TEXT), PyFind(part, L_BLOCK), {DQUOTE}),
      block_id |->
          Field(part, PyFind(part, L_BLOCK) + Len(L_BLOCK), PyFind(part, L_CONFLICT), {DQUOTE}),
      conflicting_text |->
          Field(part, PyFind(part, L_CONFLICT) + Len(L_CONFLICT), PyFind(part, L_EDIT), {DQUOTE}),
      suggested_edit |->
          Field(part, PyFind(part, L_EDIT) + Len(L_EDIT), PyFind(part, L_REASON), {DQUOTE}),
      reasoning |->
          Field(part, PyFind(part, L_REASON) + Len(L_REASON), PyFind(part, L_CONF), {BACKTICK}),
      confidence_score |->
          Field(part, PyFind(part, L_CONF) + Len(L_CONF), Len(part), {BACKTICK}) ]

_parse_suggestions(resp) ==
    IF PyFind(resp, SENTINEL) # -1 THEN <<>>
    ELSE LET parts == PySplit(resp, SUGGESTION)
         IN  [k \in 1..(Len(parts) - 1) |-> parse_part(parts[k + 1])]

\* the responses: the sentinel, or suggestion blocks in the format the prompt
\* requires, with or without a sentence before them
MaxSuggestions == 2

Bullet(label, quoted, value) ==
    <<"*", " ">> \o label \o <<" ">>
    \o (IF quoted THEN <<DQUOTE, BACKTICK>> ELSE <<BACKTICK>>)
    \o value
    \o (IF quoted THEN <<BACKTICK, DQUOTE>> ELSE <<BACKTICK>>)
    \o <<NL>>

SuggestionBlock(n, v) ==
    SUGGESTION \o <<" ", n, "*", "*", NL>>
    \o Bullet(L_LINK, FALSE, v.source_message_link)
    \o Bullet(L_CONTEXT, FALSE, v.thread_context)
    \o Bullet(L_TEXT, TRUE, v.triggering_text)
    \o Bullet(L_BLOCK, TRUE, v.block_id)
    \o Bullet(L_CONFLICT, TRUE, v.conflicting_text)
    \o Bullet(L_EDIT, TRUE, v.suggested_edit)
    \o Bullet(L_REASON, FALSE, v.reasoning)
    \o Bullet(L_CONF, FALSE, v.confidence_score)

SuggestionValues ==
    [ source_message_link : {<<"u">>, <<"u", "/", "2">>},
      thread_context : {<<"c">>},
      triggering_text : {<<"q">>},
      block_id : {<<"b", "1">>, <<"b", "-", "2">>},
      conflicting_text : {<<"o">>},
      suggested_edit : {<<"e">>, <<"n", "e", "w", " ", "t">>},
      reasoning : {<<"r">>},
      confidence_score : {<<"H", "i", "g", "h">>, <<"L", "o", "w">>} ]

RECURSIVE ValueLists(_)
ValueLists(n) ==
    IF n = 0 THEN {<<>>}
    ELSE { Append(vs, v) : vs \in ValueLists(n - 1), v \in SuggestionValues }

Numerals == <<"1", "2", "3", "4", "5", "6", "7", "8", "9">>

RenderBlocks(vs) ==
    Join(<<NL>>, [k \in DOMAIN vs |-> SuggestionBlock(Numerals[k], vs[k])])

Leads == {<<>>, <<"H", "e", "r", "e", ":", NL, NL>>}

Responses(max) ==
    {SENTINEL}
    \cup { lead \o RenderBlocks(vs) :
             lead \in Leads, vs \in UNION { ValueLists(n) : n \in 1..max } }

ParseSuggestions ==
    /\ ppc = "call"
    /\ suggestions' = _parse_suggestions(ai_response)
    /\ ppc' = "done"
    /\ UNCHANGED ai_response
    /\ UNCHANGED <<renderVars, syncVars, monitorVars, urlVars, driveVars, fetchVars, notifyVars, harvestVars, pagesVars, performVars>>

InitParse ==
    /\ RenderIdle /\ SyncIdle /\ MonitorIdle /\ UrlIdle /\ DriveIdle /\ FetchIdle /\ NotifyIdle /\ HarvestIdle /\ PagesIdle /\ PerformIdle
    /\ ai_response \in Responses(MaxSuggestions)
    /\ suggestions = <<>>
    /\ ppc = "call"

NextParse == ParseSuggestions

SpecParse == InitParse /\ [][NextParse]_vars

----------------------------------------------------------------------------
(* src/slack-grounding-recommendations/main.py: monitor_notion_slack and   *)
(* process_monitoring_job. Every call of a client is a step whose result   *)
(* is one of: a value, nothing (None, an empty list, False), an exception. *)

Job(name, u) == [job_name |-> name, notion_page_url |-> u]

\* the URL of the first configured job, and a URL with no id
JobUrls ==
    { HTTPS \o <<"w", "w", "w", ".">> \o NOTION_SO
            \o <<"/", "d", "e", "m", "a", "n", "d", "i", "o", "/">> \o Id1
            \o <<"?", "v", "=">> \o Id3,
      HTTPS \o <<"w", "w", "w", ".">> \o NOTION_SO
            \o <<"/", "d", "e", "m", "a", "n", "d", "i", "o">> }

JobLists == [1..NumJobs -> {Job(<<"j">>, u) : u \in JobUrls}]

ProjectIds == {None, Some(<<>>), Some(<<"p">>)}

MissingProject ==
    [body |-> <<"Missing GOOGLE_CLOUD_PROJECT environment variable">>, status |-> 500]
MonitorError == [body |-> <<"Error: ...">>, status |-> 500]
ProcessedAll == [body |-> <<"Successfully processed all monitoring jobs">>, status |-> 200]

Results == {"value", "nothing", "raise"}

JobUnchanged ==
    /\ UNCHANGED <<project_id, clients, MONITORING_JOBS, attempted>>
    /\ UNCHANGED <<renderVars, syncVars, urlVars, parseVars, driveVars, fetchVars, notifyVars, harvestVars, pagesVars, performVars>>

\* process_monitoring_job returns
EndJob(how) ==
    /\ ended' = Append(ended, how)
    /\ job_idx' = job_idx + 1
    /\ jpc' = "idle"
    /\ pending_posts' = 0
    /\ UNCHANGED <<mpc, m_response>>

\* an exception of a job reaches monitor_notion_slack
job_raises_uncaught ==
    /\ ended' = Append(ended, "error")
    /\ jpc' = "idle"
    /\ pending_posts' = 0
    /\ mpc' = "done"
    /\ m_response' = Some(MonitorError)
    /\ UNCHANGED job_idx

\* except Exception as e: print(f"Error processing job ...")
job_raises == EndJob("error")

\* an entry of job_calls: n is the number of records a completion gave, the
\* index of the record for a post
Call(job, call, res, n) == [job |-> job, call |-> call, res |-> res, n |-> n]

\* "if not x: return" left out after a call (what the job does not do)
CallStepIgnoringNothing(at, res, next, skipped) ==
    /\ mpc = "loop"
    /\ jpc = at
    /\ job_calls' = Append(job_calls, Call(job_idx, at, res, 0))
    /\ CASE res \in {"value", "nothing"} ->
                 /\ jpc' = next
                 /\ UNCHANGED <<ended, job_idx, pending_posts, mpc, m_response>>
         [] res = "raise" -> job_raises
    /\ UNCHANGED posted
    /\ JobUnchanged

\* a call between two steps of a job: a value leads on, nothing skips the job
CallStep(at, res, next, skipped) ==
    /\ mpc = "loop"
    /\ jpc = at
    /\ job_calls' = Append(job_calls, Call(job_idx, at, res, 0))
    /\ CASE res = "value" -> /\ jpc' = next
                             /\ UNCHANGED <<ended, job_idx, pending_posts, mpc, m_response>>
         [] res = "nothing" -> EndJob(skipped)
         [] res = "raise" -> job_raises
    /\ UNCHANGED posted
    /\ JobUnchanged

\* project_id = os.environ.get("GOOGLE_CLOUD_PROJECT"); if not project_id: ...
MonitorStart ==
    /\ mpc = "idle"
    /\ IF Truthy(project_id)
       THEN mpc' = "init" /\ UNCHANGED m_response
       ELSE mpc' = "done" /\ m_response' = Some(MissingProject)
    /\ UNCHANGED <<job_idx, jpc, ended, pending_posts, posted, job_calls>>
    /\ JobUnchanged

\* notion_client, slack_client, ai_analyzer = initialize_clients(project_id)
InitializeClients(ok) ==
    /\ mpc = "init"
    /\ IF ok
       THEN /\ clients' = "ok" /\ mpc' = "loop" /\ job_idx' = 1
            /\ UNCHANGED m_response
       ELSE /\ clients' = "failed" /\ mpc' = "done" /\ m_response' = Some(MonitorError)
            /\ UNCHANGED job_idx
    /\ UNCHANGED <<project_id, MONITORING_JOBS, attempted, jpc, ended, pending_posts, posted,
                   job_calls>>
    /\ UNCHANGED <<renderVars, syncVars, urlVars, parseVars, driveVars, fetchVars, notifyVars, harvestVars, pagesVars, performVars>>

\* process_monitoring_job(job, ...) up to its first call of a client
JobStart ==
    /\ mpc = "loop"
    /\ jpc = "idle"
    /\ job_idx <= Len(MONITORING_JOBS)
    /\ attempted' = Append(attempted, job_idx)
    /\ IF Truthy(parse_notion_url(MONITORING_JOBS[job_idx].notion_page_url))
       THEN /\ jpc' = "owner"
            /\ UNCHANGED <<ended, job_idx, pending_posts, mpc, m_response>>
       ELSE EndJob("invalid url")
    /\ UNCHANGED <<project_id, clients, MONITORING_JOBS, posted, job_calls>>
    /\ UNCHANGED <<renderVars, syncVars, urlVars, parseVars, driveVars, fetchVars, notifyVars, harvestVars, pagesVars, performVars>>

\* owner_email = notion_client.get_page_owner_email(page_id)
GetOwnerEmail(res) == CallStep("owner", res, "slack_id", "no owner email")

\* slack_user_id = slack_client.get_user_id_by_email(owner_email)
GetSlackUserId(res) == CallStep("slack_id", res, "blocks", "no slack user")

\* notion_blocks = notion_client.get_page_blocks(page_id)
GetPageBlocks(res) == CallStep("blocks", res, "messages", "no blocks")

\* slack_messages = slack_client.get_messages_from_channels(...)
GetMessages(res) == CallStep("messages", res, "suggest", "no messages")

\* the except clause of generate_suggestions re-raising (what it does not do)
completion_failure_raised == job_raises

\* except Exception as e: print(...); return []  The loop over the
\* suggestions has nothing to do and process_monitoring_job returns
completion_failure_returns_empty == EndJob("processed")

GenerateOutcomes == {"format_raises", "completion_failed", "completed"}

\* suggestions = ai_analyzer.generate_suggestions(...): an exception of the
\* formatting before the try, a failed completion call, or n parsed records
GenerateSuggestions(outcome, n) ==
    /\ mpc = "loop"
    /\ jpc = "suggest"
    /\ CASE outcome = "format_raises" ->
                 /\ job_raises
                 /\ UNCHANGED job_calls
         [] outcome = "completion_failed" ->
                 /\ completion_failure_returns_empty
                 /\ job_calls' = Append(job_calls, Call(job_idx, "completion", "raise", 0))
         [] OTHER ->
                 /\ job_calls' = Append(job_calls, Call(job_idx, "completion", "value", n))
                 /\ IF n = 0 THEN EndJob("processed")
                    ELSE /\ pending_posts' = n
                         /\ jpc' = "post"
                         /\ UNCHANGED <<ended, job_idx, mpc, m_response>>
    /\ UNCHANGED posted
    /\ JobUnchanged

\* the records the completion of the current job gave
RecordsGiven ==
    LET c == CHOOSE i \in DOMAIN job_calls :
                 job_calls[i].job = job_idx /\ job_calls[i].call = "completion"
    IN  job_calls[c].n

\* one round of the loop over the suggestions
PostSuggestion(res) ==
    /\ mpc = "loop"
    /\ jpc = "post"
    /\ job_calls' = Append(job_calls,
                           Call(job_idx, "post", res, RecordsGiven - pending_posts + 1))
    /\ IF res = "raise"
       THEN job_raises /\ UNCHANGED posted
       ELSE /\ posted' = IF res = "value" THEN Append(posted, job_idx) ELSE posted
            /\ IF pending_posts = 1 THEN EndJob("processed")
               ELSE /\ pending_posts' = pending_posts - 1
                    /\ UNCHANGED <<ended, job_idx, jpc, mpc, m_response>>
    /\ JobUnchanged

\* return "Successfully processed all monitoring jobs", 200
MonitorFinish ==
    /\ mpc = "loop"
    /\ jpc = "idle"
    /\ job_idx > Len(MONITORING_JOBS)
    /\ mpc' = "done"
    /\ m_response' = Some(ProcessedAll)
    /\ UNCHANGED <<job_idx, jpc, ended, pending_posts, posted, job_calls>>
    /\ JobUnchanged

InitMonitor ==
    /\ RenderIdle /\ SyncIdle /\ UrlIdle /\ ParseIdle /\ DriveIdle /\ FetchIdle /\ NotifyIdle /\ HarvestIdle /\ PagesIdle /\ PerformIdle
    /\ project_id \in ProjectIds
    /\ MONITORING_JOBS \in JobLists
    /\ clients = "none"
    /\ mpc = "idle" /\ job_idx = 0 /\ jpc = "idle"
    /\ attempted = <<>> /\ ended = <<>> /\ pending_posts = 0 /\ posted = <<>>
    /\ m_response = None
    /\ job_calls = <<>>

NextMonitor ==
    \/ MonitorStart
    \/ \E ok \in BOOLEAN : InitializeClients(ok)
    \/ JobStart
    \/ \E res \in Results : GetOwnerEmail(res)
    \/ \E res \in Results : GetSlackUserId(res)
    \/ \E res \in Results : GetPageBlocks(res)
    \/ \E res \in Results : GetMessages(res)
    \/ \E outcome \in GenerateOutcomes, n \in 0..MaxSuggestions : GenerateSuggestions(outcome, n)
    \/ \E res \in Results : PostSuggestion(res)
    \/ MonitorFinish

SpecMonitor == InitMonitor /\ [][NextMonitor]_vars

----------------------------------------------------------------------------
(* Every job is attempted *)

AllJobs == [k \in 1..NumJobs |-> k]

\* C5: the jobs are attempted at most once each and in list order; the entry
\* point has answered 500 exactly when the project id is missing or the
\* clients could not be made, and then no job was attempted; otherwise it has
\* answered 200 and every job of the list was attempted and has ended,
\* however the jobs before it ended (skipped, failed, processed); and as long
\* as a job of the list is left, the loop stands at it, ready to start it.
C5_EveryJob ==
    /\ \A k \in DOMAIN attempted : attempted[k] = k
    /\ Len(ended) <= Len(attempted) /\ Len(attempted) <= Len(ended) + 1
    /\ (mpc = "loop" /\ jpc = "idle" /\ Len(attempted) < NumJobs) =>
          job_idx = Len(attempted) + 1 /\ job_idx <= Len(MONITORING_JOBS)
    /\ mpc = "done" =>
          IF ~Truthy(project_id) \/ clients = "failed"
          THEN m_response.val.status = 500 /\ attempted = <<>>
          ELSE /\ m_response = Some(ProcessedAll)
               /\ m_response.val.status = 200
               /\ attempted = AllJobs
               /\ Len(ended) = NumJobs

\* the first job has failed, the second has been processed with a message
\* posted, and the entry point has answered 200
C5_Witness ==
    /\ mpc = "done"
    /\ m_response = Some(ProcessedAll)
    /\ ended = <<"error", "processed">>
    /\ posted = <<2>>

----------------------------------------------------------------------------
(* What the parsed records hold *)

\* the text of the section of a label in a suggestion block: what stands on the
\* label's line after the label, without the backticks and quotes around it
SectionText(part, label) ==
    LET rest == PySlice(part, PyFind(part, label) + Len(label), Len(part))
    IN  Strip(SubSeq(rest, 1, FindChar(rest, {NL}, 1) - 1), PyWhitespace \cup {BACKTICK, DQUOTE})

SectionsOf(part) ==
    [ source_message_link |-> SectionText(part, L_LINK),
      thread_context |-> SectionText(part, L_CONTEXT),
      triggering_text |-> SectionText(part, L_TEXT),
      block_id |-> SectionText(part, L_BLOCK),
      conflicting_text |-> SectionText(part, L_CONFLICT),
      suggested_edit |-> SectionText(part, L_EDIT),
      reasoning |-> SectionText(part, L_REASON),
      confidence_score |-> SectionText(part, L_CONF) ]

\* C10: the sentinel response gives no record; a response of N >= 1
\* well-formed suggestion blocks gives N records in response order, each field
\* of a record holding the text of its own labeled section and nothing else.
C10_Fields ==
    ppc = "done" =>
        IF ai_response = SENTINEL THEN suggestions = <<>>
        ELSE LET parts == Tail(PySplit(ai_response, SUGGESTION))
             IN  /\ Len(suggestions) = Len(parts)
                 /\ \A k \in DOMAIN parts : suggestions[k] = SectionsOf(parts[k])

\* one block has been parsed, and its link field holds the link followed by a
\* backtick, the line end and the next bullet's marker
C10_Witness ==
    /\ ppc = "done"
    /\ Len(suggestions) = 1
    /\ suggestions[1].source_message_link = <<"u", BACKTICK, NL, "*">>
    /\ suggestions[1].confidence_score = <<"H", "i", "g", "h">>

\* what does hold: the sentinel gives no record, N blocks give N records in
\* order, and the confidence field, the last of a block, is its section's text
RecordsCounted ==
    ppc = "done" =>
        IF ai_response = SENTINEL THEN suggestions = <<>>
        ELSE LET parts == Tail(PySplit(ai_response, SUGGESTION))
             IN  /\ Len(suggestions) = Len(parts)
                 /\ \A k \in DOMAIN parts :
                        suggestions[k].confidence_score = SectionsOf(parts[k]).confidence_score

----------------------------------------------------------------------------
(* src/notion-drive-sync/main.py: the uploads of _perform_sync, through    *)
(* create_drive_file, _multipart_request and _get_access_token. A unit is  *)
(* the background thread of one accepted request whose Notion calls have   *)
(* succeeded; the units run interleaved. creds is the module-level         *)
(* credentials object, the store is the destination in Drive.              *)

NumUnits == 2     \* background threads alive at the same time

Units == 1..NumUnits

DRIVE_TXT_FOLDER_ID == <<"0ADh8oHDMGlVNUk9PVA">>
DRIVE_GDOC_FOLDER_ID == <<"0AE4_IKRqRvtYUk9PVA">>
GDOC_MIME == <<"application/vnd.google-apps.document">>

Digits == {"0", "1", "2", "3", "4", "5", "6", "7", "8", "9"}

\* c.isalnum() or c in " ._-()"
SanitizeKeeps(c) ==
    \/ c \in Range(LowerCase) \/ c \in Range(UpperCase) \/ c \in Digits
    \/ c \in {" ", ".", "_", "-", "(", ")"}

sanitize(name) ==
    LET kept == SelectSeq(name, SanitizeKeeps)
    IN  SubSeq(kept, 1, IF Len(kept) < 200 THEN Len(kept) ELSE 200)

\* the title of the page the units sync
SyncTitle == <<"T", "/", "1">>

\* metadata that always names a target format
upload_metadata_always_converted(name, folder_id, convert_to_gdoc) ==
    [name |-> name, parents |-> <<folder_id>>, mimeType |-> Some(GDOC_MIME)]

\* metadata = {"name": name, "parents": [folder_id]}; if convert_to_gdoc: ...
upload_metadata(name, folder_id, convert_to_gdoc) ==
    [name |-> name, parents |-> <<folder_id>>,
     mimeType |-> IF convert_to_gdoc THEN Some(GDOC_MIME) ELSE None]

\* the arguments _perform_sync gives create_drive_file at each of its two calls
CallArgs(stage) ==
    IF stage = "txt"
    THEN [name |-> sanitize(SyncTitle) \o <<".", "t", "x", "t">>,
          folder_id |-> DRIVE_TXT_FOLDER_ID, mimetype |-> <<"text/plain">>,
          convert_to_gdoc |-> FALSE]
    ELSE [name |-> sanitize(SyncTitle),
          folder_id |-> DRIVE_GDOC_FOLDER_ID, mimetype |-> <<"text/html">>,
          convert_to_gdoc |-> TRUE]

\* every unit writes the one file of that kind
fixed_path(u, stage) == <<"tmp", stage>>

\* tempfile.NamedTemporaryFile(delete=False): a name no other call gets
temp_path(u, stage) == <<"tmp", u, stage>>

\* an upload that replaces the artifact of the same name and folder
drive_update(st, art) ==
    IF \E k \in DOMAIN st : st[k].name = art.name /\ st[k].parents = art.parents
    THEN [k \in DOMAIN st |->
             IF st[k].name = art.name /\ st[k].parents = art.parents THEN art ELSE st[k]]
    ELSE Append(st, art)

\* POST files?uploadType=multipart creates an artifact, whatever is there
drive_create(st, art) == Append(st, art)

\* what the token endpoint issues
ACCESS_TOKEN == <<"ya29">>

\* the name of the module-level variable creds
CREDS == <<"creds">>

\* not creds.valid or creds.expired
NeedsRefresh == creds.token.none \/ creds.expired

Touch(u, var, kind) == accesses' = accesses \cup {[unit |-> u, var |-> var, kind |-> kind]}

At(u, stage, step) == dpc[u] = [stage |-> stage, step |-> step]

Stages == {"txt", "gdoc"}

DriveUnchanged == UNCHANGED <<renderVars, syncVars, monitorVars, urlVars, parseVars, fetchVars, notifyVars, harvestVars, pagesVars, performVars>>

\* create_drive_file raises
CallRaises(u, stage, why) ==
    /\ dresult' = [dresult EXCEPT ![u][stage] = Some([raised |-> TRUE, why |-> why])]
    /\ dpc' = [dpc EXCEPT ![u] = [stage |-> stage, step |-> "failed"]]

\* with tempfile.NamedTemporaryFile(...) as tf: tf.write(...), then
\* create_drive_file up to token = _get_access_token(), the credentials valid
\* or not
GetToken(u, stage) ==
    /\ At(u, stage, "token")
    /\ IF NeedsRefresh
       THEN /\ dpc' = [dpc EXCEPT ![u] = [stage |-> stage, step |-> "refresh"]]
            /\ UNCHANGED tok
       ELSE /\ dpc' = [dpc EXCEPT ![u] = [stage |-> stage, step |-> "post"]]
            /\ tok' = [tok EXCEPT ![u] = creds.token]
    /\ accesses' = accesses \cup { [unit |-> u, var |-> temp_path(u, stage), kind |-> "w"],
                                   [unit |-> u, var |-> CREDS, kind |-> "r"] }
    /\ UNCHANGED <<creds, sent, store, dresult>>
    /\ DriveUnchanged

\* creds.refresh(GoogleRequest()); return creds.token
Refresh(u, stage, ok) ==
    /\ At(u, stage, "refresh")
    /\ IF ok
       THEN /\ creds' = [token |-> Some(ACCESS_TOKEN), expired |-> FALSE]
            /\ tok' = [tok EXCEPT ![u] = creds'.token]
            /\ dpc' = [dpc EXCEPT ![u] = [stage |-> stage, step |-> "post"]]
            /\ Touch(u, CREDS, "w")
            /\ UNCHANGED dresult
       ELSE /\ CallRaises(u, stage, "refresh")
            /\ UNCHANGED <<creds, tok, accesses>>
    /\ UNCHANGED <<sent, store>>
    /\ DriveUnchanged

\* open(filepath), requests.post(...), and the rest of create_drive_file
Post(u, stage, outcome) ==
    /\ At(u, stage, "post")
    /\ LET args == CallArgs(stage)
           metadata == upload_metadata(args.name, args.folder_id, args.convert_to_gdoc)
           art == [id |-> Len(store) + 1, name |-> metadata.name,
                   parents |-> metadata.parents, mimeType |-> metadata.mimeType, by |-> u]
       IN  /\ sent' = [sent EXCEPT ![u] =
                         Append(@, [stage |-> stage, metadata |-> metadata,
                                    authorized |-> ~tok[u].none, outcome |-> outcome])]
           /\ IF outcome = "ok"
              THEN /\ store' = drive_create(store, art)
                   /\ dresult' = [dresult EXCEPT
                                     ![u][stage] = Some([raised |-> FALSE, id |-> art.id])]
                   /\ dpc' = [dpc EXCEPT ![u] = IF stage = "txt"
                                                THEN [stage |-> "gdoc", step |-> "token"]
                                                ELSE [stage |-> "gdoc", step |-> "done"]]
              ELSE /\ CallRaises(u, stage, outcome)
                   /\ UNCHANGED store
    /\ tok' = [tok EXCEPT ![u] = None]
    /\ Touch(u, temp_path(u, stage), "r")
    /\ UNCHANGED creds
    /\ DriveUnchanged

\* time passes and the access token expires
Expire ==
    /\ ~creds.token.none /\ ~creds.expired
    /\ creds' = [creds EXCEPT !.expired = TRUE]
    /\ UNCHANGED <<dpc, tok, sent, store, dresult, accesses>>
    /\ DriveUnchanged

\* resp.ok, not resp.ok, requests.post raises
PostOutcomes == {"ok", "http_error", "transport_error"}

InitDrive ==
    /\ RenderIdle /\ SyncIdle /\ MonitorIdle /\ UrlIdle /\ ParseIdle /\ FetchIdle /\ NotifyIdle /\ HarvestIdle /\ PagesIdle /\ PerformIdle
    /\ creds = [token |-> None, expired |-> FALSE]
    /\ dpc = [u \in Units |-> [stage |-> "txt", step |-> "token"]]
    /\ tok = [u \in Units |-> None]
    /\ sent = [u \in Units |-> <<>>]
    /\ store = <<>>
    /\ dresult = [u \in Units |-> [s \in Stages |-> None]]
    /\ accesses = {}

NextDrive ==
    \/ \E u \in Units, stage \in Stages : GetToken(u, stage)
    \/ \E u \in Units, stage \in Stages, ok \in BOOLEAN : Refresh(u, stage, ok)
    \/ \E u \in Units, stage \in Stages, outcome \in PostOutcomes : Post(u, stage, outcome)
    \/ Expire

SpecDrive == InitDrive /\ [][NextDrive]_vars

\* the upload requests one call of create_drive_file has issued
RequestsOf(u, stage) == SelectSeq(sent[u], LAMBDA r : r.stage = stage)

\* the call has returned or raised
Completed(u, stage) == dresult[u][stage] # None

Racy(a, b) == a.unit # b.unit /\ a.var = b.var /\ "w" \in {a.kind, b.kind}

\* C14 as the specification states it: no variable written by one invocation
\* or its background unit is read or written by another.
C14_NoSharedState == \A a, b \in accesses : ~Racy(a, b)

\* C14: the background units share exactly one mutable variable, the
\* module-level credentials: a unit that finds them invalid rewrites them with
\* no lock held, and every other unit reads them. Nothing else one unit writes
\* is reached by another, and whatever the interleaving every upload request
\* carries an access token.
C14_OnlyCredentials ==
    /\ \A a, b \in accesses : Racy(a, b) => a.var = CREDS
    /\ \A u \in Units :
          /\ \A k \in DOMAIN sent[u] : sent[u][k].authorized
          /\ dpc[u].step = "post" => tok[u] = Some(ACCESS_TOKEN)

\* one unit refreshed the credentials and another, which never did, has sent an
\* upload request with the token it found there
C14_Witness ==
    \E u, v \in Units :
        /\ u # v
        /\ [unit |-> u, var |-> CREDS, kind |-> "w"] \in accesses
        /\ [unit |-> v, var |-> CREDS, kind |-> "w"] \notin accesses
        /\ sent[v] # <<>>

\* the units whose two uploads both returned an id
Successful ==
    { u \in Units : \A stage \in Stages :
                       Completed(u, stage) /\ ~dresult[u][stage].val.raised }

ArtifactsOf(us) == { k \in DOMAIN store : store[k].by \in us }

\* the destination after any number of uploads: every artifact is where its
\* creation put it, and the artifacts of the successful units are a plain-text
\* one and a converted one each
C15_TwoEach ==
    /\ \A k \in DOMAIN store : store[k].id = k
    /\ \A u \in Successful :
          /\ Cardinality(ArtifactsOf({u})) = 2
          /\ \E k, l \in ArtifactsOf({u}) :
                /\ k < l
                /\ store[k].mimeType = None
                /\ store[l].mimeType = Some(GDOC_MIME)
    /\ Cardinality(ArtifactsOf(Successful)) = 2 * Cardinality(Successful)

\* a step leaves every artifact of the destination as it was
C15_Kept ==
    /\ Len(store') >= Len(store)
    /\ SubSeq(store', 1, Len(store)) = store

\* C15: every sync whose calls all succeed creates two new artifacts, one
\* plain-text and one converted document, and no upload updates or deletes an
\* existing artifact: N successful syncs of the same page leave 2N artifacts
\* created by them, and the number of artifacts never decreases.
C15_NewArtifacts == [] C15_TwoEach /\ [][C15_Kept]_vars

\* every unit has synced the same page successfully
C15_Witness ==
    /\ Successful = Units
    /\ Len(store) = 2 * NumUnits
    /\ \E k, l \in DOMAIN store :
          k # l /\ store[k].name = store[l].name /\ store[k].parents = store[l].parents

----------------------------------------------------------------------------
(* src/slack-grounding-recommendations: the loop over the suggestions in   *)
(* process_monitoring_job (main.py), construct_notion_block_url (utils.py) *)
(* and SlackClient.post_suggestion_to_user (slack_client.py). A suggestion *)
(* is a Python dict: a function from its keys to their values.             *)

NOTION_URL_BASE == <<"https://www.notion.so/">>

\* clean = s.replace("-", "")
NoHyphens(s) == Replace(s, "-", <<>>)

construct_notion_block_url(pid, block_id) ==
    NOTION_URL_BASE \o NoHyphens(pid) \o <<"#">> \o NoHyphens(block_id)

\* d[key] = value
SetItem(d, key, value) ==
    [k \in DOMAIN d \cup {key} |-> IF k = key THEN value ELSE d[k]]

\* del d[key]
DelItem(d, key) == [k \in DOMAIN d \ {key} |-> d[k]]

\* the keys post_suggestion_to_user subscripts: suggestion['...']
SubscriptedKeys ==
    {"source_message_link", "triggering_text", "conflicting_text", "suggested_edit",
     "reasoning", "confidence_score", "notion_url"}

\* the keys _parse_suggestions sets
ParsedKeys ==
    {"source_message_link", "thread_context", "triggering_text", "block_id",
     "conflicting_text", "suggested_edit", "reasoning", "confidence_score"}

\* try: blocks = [...]; result = self.client.chat_postMessage(...);
\* return result["ok"]  except SlackApiError: ...; return False
post_suggestion_to_user(suggestion, outcome) ==
    IF ~(SubscriptedKeys \subseteq DOMAIN suggestion)
    THEN [raised |-> TRUE, value |-> FALSE, message |-> None]     \* KeyError
    ELSE IF outcome = "api_error"
    THEN [raised |-> FALSE, value |-> FALSE, message |-> None]
    ELSE [raised |-> FALSE, value |-> TRUE,
          message |-> Some([url |-> suggestion["notion_url"],
                            source |-> suggestion["source_message_link"],
                            context |-> IF "thread_context" \in DOMAIN suggestion
                                           /\ suggestion["thread_context"] # <<>>
                                        THEN Some(suggestion["thread_context"]) ELSE None])]

NotifyUnchanged ==
    UNCHANGED <<renderVars, syncVars, monitorVars, urlVars, parseVars, driveVars, fetchVars, harvestVars, pagesVars, performVars>>

\* one round of: for suggestion in suggestions, under the try of
\* process_monitoring_job
NotifyNext(outcome) ==
    /\ npc = "loop"
    /\ sugg_idx <= Len(job_suggestions)
    /\ LET suggestion == job_suggestions[sugg_idx]
       IN  IF "block_id" \notin DOMAIN suggestion
           THEN \* KeyError at suggestion["block_id"], caught by except Exception
                /\ npc' = "failed"
                /\ UNCHANGED <<dm_sent, post_results, sugg_idx>>
           ELSE LET url_ == construct_notion_block_url(job_page_id, suggestion["block_id"])
                    res == post_suggestion_to_user(
                               SetItem(suggestion, "notion_url", url_), outcome)
                IN  /\ post_results' = Append(post_results, [raised |-> res.raised,
                                                            value |-> res.value])
                    /\ dm_sent' = IF res.message # None
                                  THEN Append(dm_sent, res.message.val) ELSE dm_sent
                    /\ IF res.raised
                       THEN npc' = "failed" /\ UNCHANGED sugg_idx
                       ELSE /\ sugg_idx' = sugg_idx + 1
                            /\ npc' = IF sugg_idx = Len(job_suggestions)
                                      THEN "done" ELSE "loop"
    /\ UNCHANGED <<named, job_page_id, job_suggestions>>
    /\ NotifyUnchanged

\* what the completion names for each field of a suggestion
NamedValues ==
    [ source_message_link : {<<"u">>},
      thread_context : {<<"c">>},
      triggering_text : {<<"q">>},
      block_id : {<<"b", "1">>, <<"b", "-", "2">>},
      conflicting_text : {<<"o">>},
      suggested_edit : {<<"e">>},
      reasoning : {<<"r">>},
      confidence_score : {<<"H", "i", "g", "h">>} ]

RECURSIVE NamedLists(_)
NamedLists(n) ==
    IF n = 0 THEN {<<>>}
    ELSE { Append(vs, v) : vs \in NamedLists(n - 1), v \in NamedValues }

JobPageIds == {<<"a", "b", "1", "2">>, <<"a", "b", "-", "1", "2">>}

\* the suggestions are what _parse_suggestions makes of the completion, and in
\* a job whose first record has lost a key, the same without it
InitNotify ==
    /\ RenderIdle /\ SyncIdle /\ MonitorIdle /\ UrlIdle /\ ParseIdle /\ DriveIdle /\ FetchIdle /\ HarvestIdle /\ PagesIdle /\ PerformIdle
    /\ named \in UNION { NamedLists(n) : n \in 1..MaxSuggestions }
    /\ job_page_id \in JobPageIds
    /\ \E parsed \in {_parse_suggestions(RenderBlocks(named))},
          missing \in ParsedKeys \cup {"nothing"} :
          job_suggestions =
              [k \in DOMAIN parsed |->
                  IF k = 1 /\ missing # "nothing"
                  THEN DelItem(parsed[k], missing) ELSE parsed[k]]
    /\ sugg_idx = 1
    /\ dm_sent = <<>>
    /\ post_results = <<>>
    /\ npc = "loop"

NextNotify == \E outcome \in {"ok", "api_error"} : NotifyNext(outcome)

SpecNotify == InitNotify /\ [][NextNotify]_vars

\* C12: post_suggestion_to_user returns a boolean and never raises, whatever
\* the record and the outcome of the post, so that every suggestion of the job
\* gets its post.
C12_NeverRaises ==
    /\ \A k \in DOMAIN post_results : ~post_results[k].raised
    /\ npc # "failed"

\* the first record has no triggering text: its post has raised, and the
\* second suggestion of the job, a complete record, is never posted
C12_Witness ==
    /\ npc = "failed"
    /\ Len(job_suggestions) = 2
    /\ "triggering_text" \notin DOMAIN job_suggestions[1]
    /\ ParsedKeys \subseteq DOMAIN job_suggestions[2]
    /\ post_results = <<[raised |-> TRUE, value |-> FALSE]>>
    /\ dm_sent = <<>>

\* what does hold: a record with every subscripted key gets True or False, an
\* API error is False, and the loop goes on to the next suggestion
CompleteRecordsPosted ==
    (\A k \in DOMAIN job_suggestions : ParsedKeys \ {"thread_context"} \subseteq DOMAIN job_suggestions[k])
        => /\ npc # "failed"
           /\ \A k \in DOMAIN post_results : ~post_results[k].raised
           /\ npc = "done" => Len(post_results) = Len(job_suggestions)

\* the indices of the suggestions whose message was posted, in order
PostedIdx ==
    SelectSeq([k \in DOMAIN post_results |-> k], LAMBDA k : post_results[k].value)

\* C13: the deep link of every notified suggestion is the base, the job's page
\* id, '#' and the BLOCK_ID the suggestion names, both without hyphens.
C13_Fragment ==
    \A j \in DOMAIN dm_sent :
        dm_sent[j].url = NOTION_URL_BASE \o NoHyphens(job_page_id) \o <<"#">>
                             \o NoHyphens(named[PostedIdx[j]].block_id)

\* the suggestion names block b-2, and the link of its message ends in the
\* quoting around the id, a line end and the next bullet's marker
C13_Witness ==
    /\ named[1].block_id = <<"b", "-", "2">>
    /\ dm_sent # <<>>
    /\ dm_sent[1].url = NOTION_URL_BASE \o <<"a", "b", "1", "2", "#">>
                            \o <<BACKTICK, "b", "2", BACKTICK, DQUOTE, NL, "*">>

\* what does hold: the link is built from the record's block_id as parsed
LinkOfParsedId ==
    \A j \in DOMAIN dm_sent :
        dm_sent[j].url = NOTION_URL_BASE \o NoHyphens(job_page_id) \o <<"#">>
                             \o NoHyphens(job_suggestions[PostedIdx[j]]["block_id"])

----------------------------------------------------------------------------
(* src/notion-drive-sync/main.py: fetch_all_blocks, and what _perform_sync *)
(* does after it. The server holds, for every block id, the pages of its   *)
(* child list; a cursor is the number of a page. The request numbered      *)
(* fail_at raises.                                                         *)

ROOT == 0

\* notion.blocks.children.list(block_id=..., start_cursor=...)
Serve(block_id, start_cursor) ==
    LET pages == server[block_id]
        i == IF start_cursor = None THEN 1 ELSE start_cursor.val
    IN  IF pages = <<>>
        THEN [results |-> <<>>, has_more |-> FALSE, next_cursor |-> None]
        ELSE [results |-> pages[i].results, has_more |-> pages[i].has_more,
              next_cursor |-> IF pages[i].has_more THEN Some(i + 1) ELSE None]

\* the exception is swallowed and what was listed so far is returned
request_failed_partial(acc, reqs) == [raised |-> FALSE, blocks |-> acc, requests |-> reqs]

\* an exception of notion.blocks.children.list leaves fetch_all_blocks
request_failed(acc, reqs) == [raised |-> TRUE, blocks |-> <<>>, requests |-> reqs]

\* the listing stops after the first page
more_pages_ignored(res) == FALSE

\* if not res.get("has_more"): break
more_pages(res) == res.has_more

RECURSIVE ListChildren(_, _, _, _)
\* the while True loop of fetch_all_blocks
ListChildren(block_id, start_cursor, acc, reqs) ==
    LET reqs2 == Append(reqs, [block_id |-> block_id, start_cursor |-> start_cursor])
    IN  IF Len(reqs2) = fail_at THEN request_failed(acc, reqs2)
        ELSE LET res == Serve(block_id, start_cursor)
                 acc2 == acc \o [k \in DOMAIN res.results |->
                                    [id |-> res.results[k].id,
                                     has_children |-> res.results[k].has_children,
                                     children |-> None]]
             IN  IF ~more_pages(res)
                 THEN [raised |-> FALSE, blocks |-> acc2, requests |-> reqs2]
                 ELSE ListChildren(block_id, res.next_cursor, acc2, reqs2)

RECURSIVE fetch_all_blocks(_, _), FillChildren(_, _, _)
\* for blk in blocks: if blk.get("has_children"): blk["children"] = ...
FillChildren(blks, k, reqs) ==
    IF k > Len(blks) THEN [raised |-> FALSE, blocks |-> blks, requests |-> reqs]
    ELSE IF ~blks[k].has_children THEN FillChildren(blks, k + 1, reqs)
    ELSE LET sub == fetch_all_blocks(blks[k].id, reqs)
         IN  IF sub.raised THEN [raised |-> TRUE, blocks |-> <<>>, requests |-> sub.requests]
             ELSE FillChildren([blks EXCEPT ![k].children = Some(sub.blocks)],
                               k + 1, sub.requests)

\* reqs: the requests issued before the call
fetch_all_blocks(block_id, reqs) ==
    LET listed == ListChildren(block_id, None, <<>>, reqs)
    IN  IF listed.raised THEN listed ELSE FillChildren(listed.blocks, 1, listed.requests)

FetchUnchanged ==
    UNCHANGED <<renderVars, syncVars, monitorVars, urlVars, parseVars, driveVars, notifyVars, harvestVars, pagesVars, performVars>>

\* blocks = fetch_all_blocks(page_id) in _perform_sync, and its except
FetchAll ==
    /\ fpc = "fetch"
    /\ fetched' = Some(fetch_all_blocks(ROOT, <<>>))
    /\ fpc' = IF fetched'.val.raised THEN "failed" ELSE "txt"
    /\ UNCHANGED <<server, fail_at, uploads>>
    /\ FetchUnchanged

\* the two create_drive_file calls of _perform_sync
Upload(ok) ==
    /\ fpc \in {"txt", "gdoc"}
    /\ IF ok
       THEN /\ uploads' = Append(uploads, fpc)
            /\ fpc' = IF fpc = "txt" THEN "gdoc" ELSE "done"
       ELSE /\ fpc' = "failed"
            /\ UNCHANGED uploads
    /\ UNCHANGED <<server, fail_at, fetched>>
    /\ FetchUnchanged

MaxBlocks == 4    \* nodes of a document on the server

\* the documents: nodes 1..n, parent[k] the block node k is under, listed
\* under it in the order of their ids
ParentFns(n) == { p \in [1..n -> 0..n] : \A k \in 1..n : p[k] < k }

RECURSIVE Chunk(_, _)
Chunk(seq, size) ==
    IF Len(seq) <= size THEN (IF seq = <<>> THEN <<>> ELSE <<seq>>)
    ELSE <<SubSeq(seq, 1, size)>> \o Chunk(SubSeq(seq, size + 1, Len(seq)), size)

\* the child list of a block in pages of psize nodes; a node is flagged when it
\* has children, and so is the childless node named flagged; when cut, the first
\* page of the root reports no further page
ServerOf(n, p, psize, flagged, cut) ==
    [ b \in 0..n |->
        LET ids == SelectSeq([k \in 1..n |-> k], LAMBDA k : p[k] = b)
            kids == [i \in DOMAIN ids |->
                        [id |-> ids[i],
                         has_children |-> (\E c \in 1..n : p[c] = ids[i]) \/ ids[i] = flagged]]
            chunks == Chunk(kids, psize)
        IN  [i \in DOMAIN chunks |->
                [results |-> chunks[i],
                 has_more |-> i < Len(chunks) /\ ~(cut /\ b = ROOT /\ i = 1)]] ]

Servers(max) ==
    { ServerOf(n, p, psize, flagged, cut) :
        n \in {max}, p \in ParentFns(max), psize \in {1, 2},
        flagged \in {0, max}, cut \in BOOLEAN }

InitFetch ==
    /\ RenderIdle /\ SyncIdle /\ MonitorIdle /\ UrlIdle /\ ParseIdle /\ DriveIdle /\ NotifyIdle /\ HarvestIdle /\ PagesIdle /\ PerformIdle
    /\ server \in UNION { Servers(n) : n \in 0..MaxBlocks }
    /\ fail_at \in 0..(2 * MaxBlocks + 1)
    /\ fetched = None
    /\ uploads = <<>>
    /\ fpc = "fetch"

NextFetch ==
    \/ FetchAll
    \/ \E ok \in BOOLEAN : Upload(ok)

SpecFetch == InitFetch /\ [][NextFetch]_vars

\* the nodes the server lists under a block: its pages, in order, up to the
\* first one that reports no further page
Listed(b) ==
    LET pages == server[b]
    IN  IF pages = <<>> THEN <<>>
        ELSE LET last == Min({ i \in DOMAIN pages : ~pages[i].has_more })
             IN  Flatten([i \in 1..last |-> pages[i].results])

RECURSIVE TreeOf(_)
\* the document under a block, as the server holds it
TreeOf(b) ==
    [k \in DOMAIN Listed(b) |->
        [id |-> Listed(b)[k].id,
         has_children |-> Listed(b)[k].has_children,
         children |-> IF Listed(b)[k].has_children
                      THEN Some(TreeOf(Listed(b)[k].id)) ELSE None]]

RECURSIVE SubtreeIds(_)
SubtreeIds(b) == {b} \cup UNION { SubtreeIds(Listed(b)[k].id) : k \in DOMAIN Listed(b) }

\* every request for the subtree of a node comes before any request for the
\* subtree of a later sibling
DepthFirst(reqs) ==
    \A b \in DOMAIN server : \A i, j \in DOMAIN Listed(b) :
        i < j =>
            \A x, y \in DOMAIN reqs :
                /\ reqs[x].block_id \in SubtreeIds(Listed(b)[i].id)
                /\ reqs[y].block_id \in SubtreeIds(Listed(b)[j].id)
                => x < y

\* C16: fetch_all_blocks returns the whole ordered tree: under each parent the
\* nodes of all its pages in response order, up to the first page reporting no
\* further page; under each node flagged as having children the result of the
\* same fetch on its id; and its requests are issued depth-first.
C16_Tree ==
    (fetched # None /\ ~fetched.val.raised) =>
        /\ fetched.val.blocks = TreeOf(ROOT)
        /\ DepthFirst(fetched.val.requests)
        /\ \A b \in DOMAIN server :
              (\E x \in DOMAIN fetched.val.requests : fetched.val.requests[x].block_id = b)
                  <=> b \in SubtreeIds(ROOT) /\ (b = ROOT \/ \E p \in DOMAIN server :
                         \E k \in DOMAIN Listed(p) : Listed(p)[k] = [id |-> b, has_children |-> TRUE])

\* a fetch of a root whose list came in two pages: the first node has a child
\* that has a child, the second is flagged, and the requests went down to the
\* grandchild before they went to the second node
C16_Witness ==
    /\ fetched # None /\ ~fetched.val.raised
    /\ Len(server[ROOT]) = 2 /\ server[ROOT][1].has_more
    /\ fetched.val.blocks =
          << [id |-> 1, has_children |-> TRUE,
              children |-> Some(<< [id |-> 2, has_children |-> TRUE,
                                    children |-> Some(<< [id |-> 3, has_children |-> FALSE,
                                                          children |-> None] >>)] >>)],
             [id |-> 4, has_children |-> TRUE, children |-> Some(<<>>)] >>
    /\ [k \in DOMAIN fetched.val.requests |-> fetched.val.requests[k].block_id]
          = <<ROOT, ROOT, 1, 2, 4>>

\* the blocks whose child list a complete fetch asks for
Requested ==
    { b \in SubtreeIds(ROOT) :
        b = ROOT \/ \E p \in DOMAIN server : \E k \in DOMAIN Listed(p) :
                       Listed(p)[k] = [id |-> b, has_children |-> TRUE] }

\* the requests a complete fetch makes for the child list of a block
PagesRead(b) ==
    IF server[b] = <<>> THEN 1 ELSE Min({ i \in DOMAIN server[b] : ~server[b][i].has_more })

RECURSIVE SumPages(_)
SumPages(S) ==
    IF S = {} THEN 0
    ELSE LET b == CHOOSE x \in S : TRUE IN PagesRead(b) + SumPages(S \ {b})

\* one of the requests of the fetch fails
SomeRequestFails == fail_at \in 1..SumPages(Requested)

\* C17: a failed child-list request, at any depth and page, ends
\* fetch_all_blocks with the exception: the failed request is its last one,
\* no request was issued twice, no tree is returned, and the background sync
\* uploads no artifact.
C17_Aborts ==
    (fetched # None /\ SomeRequestFails) =>
        /\ fetched.val.raised
        /\ fetched.val.blocks = <<>>
        /\ Len(fetched.val.requests) = fail_at
        /\ \A x, y \in DOMAIN fetched.val.requests :
              fetched.val.requests[x] = fetched.val.requests[y] => x = y
        /\ uploads = <<>>
        /\ fpc = "failed"

\* the request for the children of a grandchild-bearing node failed after two
\* pages of the root and the list of the first node had been read
C17_Witness ==
    /\ fetched # None /\ fetched.val.raised
    /\ fail_at = 4
    /\ fetched.val.requests =
          << [block_id |-> ROOT, start_cursor |-> None],
             [block_id |-> ROOT, start_cursor |-> Some(2)],
             [block_id |-> 1, start_cursor |-> None],
             [block_id |-> 2, start_cursor |-> None] >>
    /\ fpc = "failed"

\* without a failing request the sync goes on to its uploads
NoFailureNoAbort ==
    (fetched # None /\ ~SomeRequestFails) => ~fetched.val.raised /\ fpc # "fetch"

----------------------------------------------------------------------------
(* What the two renderers write for each type of node *)

Headings == {"heading_1", "heading_2", "heading_3"}

\* the literal prefix of the list items and the quotes
Marker ==
    [bulleted_list_item |-> <<"-", " ">>,
     numbered_list_item |-> <<"1", ".", " ">>,
     quote |-> <<">", " ">>]

TextOf(blk) == Flatten([i \in DOMAIN blk.rich_text |-> blk.rich_text[i].plain_text])

\* the three lines of the rule: an empty one, the dashes, an empty one
RuleLines == << <<>>, <<"-", "-", "-">>, <<>> >>

LineByType(blk) ==
    IF blk.type \in Headings THEN StrUpper(TextOf(blk))
    ELSE IF blk.type \in DOMAIN Marker THEN Marker[blk.type] \o TextOf(blk)
    ELSE IF blk.type = "divider" THEN Join(<<NL>>, RuleLines)
    ELSE TextOf(blk)

\* C18: blocks_to_plaintext writes, for every node in document order, the line
\* of its type: the text upper-cased for a heading, after '- ' for a bulleted
\* item, after '1. ' for a numbered item, after '> ' for a quote, the
\* three-line rule for a divider, the text as it is for any other type; the
\* lines of the children follow the line of their parent. The heading
\* 'Q&A: A<B' gives 'Q&A: A<B', nothing escaped.
C18_ByType ==
    rpc = "done" =>
        /\ LET po == PreOrder(blocks)
           IN  TxtBody(txt_content, metadata_lines)
                  = Join(<<NL>>, [i \in DOMAIN po |-> LineByType(po[i])])
        /\ blocks = QandA =>
              TxtBody(txt_content, metadata_lines) = <<"Q", "&", "A", ":", " ", "A", "<", "B">>

\* the rendered document of an unknown item with a numbered item and a quote
\* under it, followed by a code node
C18_Witness ==
    /\ rpc = "done"
    /\ blocks = UnknownParent
    /\ TxtBody(txt_content, metadata_lines)
          = <<"n", NL, "1", ".", " ", "x", NL, ">", " ", "y", NL, "z">>

\* the wrapper of every type blocks_to_html knows
Wrapper ==
    [heading_1 |-> <<"<h1>", "</h1>">>,
     heading_2 |-> <<"<h2>", "</h2>">>,
     heading_3 |-> <<"<h3>", "</h3>">>,
     paragraph |-> <<"<p>", "</p>">>,
     bulleted_list_item |-> <<"<ul><li>", "</li></ul>">>,
     numbered_list_item |-> <<"<ol><li>", "</li></ol>">>,
     code |-> <<"<pre><code>", "</code></pre>">>,
     quote |-> <<"<blockquote>", "</blockquote>">>]

ElementByType(blk) ==
    IF blk.type \in DOMAIN Wrapper
    THEN <<Wrapper[blk.type][1]>> \o html_escape(TextOf(blk)) \o <<Wrapper[blk.type][2]>>
    ELSE IF blk.type = "divider" THEN <<"<hr />">>
    ELSE <<>>

\* C19: blocks_to_html writes, for every node in document order, the fixed
\* wrapper of its type around the escaped text, the rule element for a
\* divider, and nothing for a node of a type it does not know, whose children
\* are still rendered in place.
C19_Wrappers ==
    rpc = "done" =>
        LET po == PreOrder(blocks)
        IN  SelectSeq(HtmlBody(html_str), LAMBDA t : t # NL)
               = Flatten([i \in DOMAIN po |-> ElementByType(po[i])])

\* the rendered document of an unknown item with a numbered item and a quote
\* under it, followed by a code node: the children are there, the item is not
C19_Witness ==
    /\ rpc = "done"
    /\ blocks = UnknownParent
    /\ HtmlBody(html_str)
          = <<"<ol><li>", "x", "</li></ol>", NL, "<blockquote>", "y", "</blockquote>", NL,
              "<pre><code>", "z", "</code></pre>">>

----------------------------------------------------------------------------
(* Properties build_metadata cannot show *)

\* a property of a type the dispatch does not know, or none at all
Unreadable(po) == po.none \/ po.val.type \in {"", "button"}

\* C20: a property that is null, or of an unknown type, or malformed, gets no
\* line and makes neither _extract_property_value nor build_metadata raise,
\* and the other properties of the page still get their lines.
C20_Tolerant ==
    /\ rpc # "failed"
    /\ rpc = "extracted" /\ Unreadable(prop) => prop_value = None
    /\ rpc = "txt" =>
          \A i \in DOMAIN page.properties :
              LET e == page.properties[i]
                  shown == \E j \in DOMAIN PropertySection(metadata_lines) :
                              StartsWith(PropertySection(metadata_lines)[j],
                                         DisplayName(e.name) \o <<": ">>)
              IN  IF Unreadable(e.prop) THEN ~shown ELSE shown <=> HasLine(e)

\* build_metadata has raised on a page whose first property is null and whose
\* second is the number 7: no line was produced
C20_Witness ==
    /\ rpc = "failed"
    /\ Len(page.properties) = 2
    /\ page.properties[1].prop = None
    /\ page.properties[2].prop = Prop("number", Some(7))
    /\ metadata_lines = <<>>

\* what does hold: _extract_property_value returns None for a null property
\* and for a type it does not know, and build_metadata writes no line for a
\* property object of an unknown type
UnreadableSkipped ==
    /\ rpc = "extracted" /\ Unreadable(prop) => prop_value = None
    /\ rpc = "txt" =>
          \A i \in DOMAIN page.properties :
              Unreadable(page.properties[i].prop) =>
                  ~\E j \in DOMAIN PropertySection(metadata_lines) :
                      StartsWith(PropertySection(metadata_lines)[j],
                                 DisplayName(page.properties[i].name) \o <<": ">>)

----------------------------------------------------------------------------
(***************************************************************************)
(* src/slack-grounding-recommendations/slack_client.py:                    *)
(* get_messages_from_channels.  A message is a dict: a function from its   *)
(* keys.  A timestamp is the text "<channel number>.<message number>".     *)
(***************************************************************************)

\* d.get(key, default)
Get(d, key, default) == IF key \in DOMAIN d THEN d[key] ELSE default

\* msg.get("thread_ts") as a condition
HasThreadTs(msg) == Get(msg, "thread_ts", <<>>) # <<>>

\* msg.get("thread_ts") or msg.get("reply_count", 0) > 0
IsThreaded(msg) == HasThreadTs(msg) \/ Get(msg, "reply_count", 0) > 0

\* msg["ts" if not msg.get("thread_ts") else "thread_ts"]
RepliesTs(msg) == IF ~HasThreadTs(msg) THEN msg["ts"] ELSE msg["thread_ts"]

\* the permalink the lookup returns
Permalink(channel_id, ts) ==
    <<"https://demandio.slack.com/archives/", channel_id, "/p">> \o Replace(ts, ".", <<>>)

\* f"https://slack.com/archives/{channel_id}/p{msg['ts'].replace('.', '')}"
ConstructedLink(channel_id, ts) ==
    <<"https://slack.com/archives/", channel_id, "/p">> \o Replace(ts, ".", <<>>)

\* what chat_getPermalink does for a timestamp of a channel
LookupOutcome(sc, ts) == IF ts \in sc.bad THEN sc.mode ELSE "ok"

\* the try around chat_getPermalink: the message after it
WithPermalink(sc, channel_id, msg) ==
    CASE LookupOutcome(sc, msg["ts"]) = "ok" ->
             SetItem(msg, "permalink", Permalink(channel_id, msg["ts"]))
      [] LookupOutcome(sc, msg["ts"]) = "not_ok" -> msg
      [] OTHER -> SetItem(msg, "permalink", ConstructedLink(channel_id, msg["ts"]))

LookupCall(channel_id, msg) == <<"chat_getPermalink", channel_id, msg["ts"]>>

LookupPrinted(sc, kind, msg) ==
    IF LookupOutcome(sc, msg["ts"]) = "raise" THEN << <<kind, msg["ts"]>> >> ELSE <<>>

\* the three assignments to a reply before its lookup
Tagged(reply, channel_id, msg) ==
    SetItem(SetItem(SetItem(reply, "channel_id", channel_id),
                    "is_thread_reply", TRUE), "parent_ts", msg["ts"])

\* the for loop over thread_result["messages"]: what it appends, requests, prints
RECURSIVE HarvestReplies(_, _, _, _)

HarvestReplies(sc, channel_id, msg, replies) ==
    IF replies = <<>> THEN [messages |-> <<>>, calls |-> <<>>, printed |-> <<>>]
    ELSE LET reply == Head(replies)
             rest == HarvestReplies(sc, channel_id, msg, Tail(replies))
         IN  IF reply["ts"] = msg["ts"] THEN rest
             ELSE LET tagged == Tagged(reply, channel_id, msg)
                  IN  [messages |-> <<WithPermalink(sc, channel_id, tagged)>> \o rest.messages,
                       calls |-> <<LookupCall(channel_id, tagged)>> \o rest.calls,
                       printed |-> LookupPrinted(sc, "reply", tagged) \o rest.printed]

\* the thread of a timestamp as conversations_replies returns it
ThreadOf(sc, ts) == IF ts \in DOMAIN sc.threads THEN sc.threads[ts] ELSE <<>>

\* the if on the thread fields and the try inside it
HarvestThread(sc, channel_id, msg) ==
    IF ~IsThreaded(msg) THEN [messages |-> <<>>, calls |-> <<>>, printed |-> <<>>]
    ELSE LET call == <<"conversations_replies", channel_id, RepliesTs(msg)>>
         IN  CASE sc.replies = "raise" ->
                      [messages |-> <<>>, calls |-> <<call>>,
                       printed |-> << <<"thread", msg["ts"]>> >>]
               [] sc.replies = "not_ok" ->
                      [messages |-> <<>>, calls |-> <<call>>, printed |-> <<>>]
               [] OTHER ->
                      LET r == HarvestReplies(sc, channel_id, msg,
                                              ThreadOf(sc, RepliesTs(msg)))
                      IN  [r EXCEPT !.calls = <<call>> \o @]

\* the for loop over result["messages"]
RECURSIVE HarvestMessages(_, _, _)

HarvestMessages(sc, channel_id, msgs) ==
    IF msgs = <<>> THEN [messages |-> <<>>, calls |-> <<>>, printed |-> <<>>]
    ELSE LET msg == SetItem(Head(msgs), "channel_id", channel_id)
             linked == WithPermalink(sc, channel_id, msg)
             thread == HarvestThread(sc, channel_id, linked)
             rest == HarvestMessages(sc, channel_id, Tail(msgs))
         IN  [messages |-> <<linked>> \o thread.messages \o rest.messages,
              calls |-> <<LookupCall(channel_id, msg)>> \o thread.calls \o rest.calls,
              printed |-> LookupPrinted(sc, "message", msg) \o thread.printed
                          \o rest.printed]

\* one iteration of the for loop over channel_ids
HarvestOne(sc, channel_id) ==
    LET call == <<"conversations_history", channel_id>>
    IN  CASE sc.hist = "raise" ->
                 [messages |-> <<>>, calls |-> <<call>>,
                  printed |-> << <<"channel", channel_id>> >>]
          [] sc.hist = "not_ok" ->
                 [messages |-> <<>>, calls |-> <<call>>, printed |-> <<>>]
          [] OTHER ->
                 LET r == HarvestMessages(sc, channel_id, sc.msgs)
                 IN  [r EXCEPT !.calls = <<call>> \o @]

\* an exception of the history request ends get_messages_from_channels
\* (what the loop does not do)
channel_failure_returns(sc, idx) ==
    IF sc.hist = "raise" THEN Len(channel_ids) + 1 ELSE idx + 1

\* the end of an iteration, through the except clause or not: the next channel
after_channel(sc, idx) == idx + 1

HarvestUnchanged ==
    UNCHANGED <<renderVars, syncVars, monitorVars, urlVars, parseVars, driveVars,
                fetchVars, notifyVars, pagesVars, performVars>>

HarvestChannel ==
    /\ chan_idx \in 1..Len(channel_ids)
    /\ \E r \in {HarvestOne(slack[channel_ids[chan_idx]], channel_ids[chan_idx])} :
          /\ messages' = messages \o r.messages
          /\ api_calls' = api_calls \o r.calls
          /\ printed' = printed \o r.printed
    /\ chan_idx' = after_channel(slack[channel_ids[chan_idx]], chan_idx)
    /\ UNCHANGED <<channel_ids, slack, formatted>>
    /\ HarvestUnchanged

\* get_messages_from_channels has returned messages
Harvested == chan_idx = Len(channel_ids) + 1

(***************************************************************************)
(* What Slack holds and answers.                                           *)
(***************************************************************************)

MaxReplies == 2    \* replies of a thread

Channels == {"C1", "C2"}

ChannelNo(c) == IF c = "C1" THEN "1" ELSE "2"

Ts(c, k) == <<ChannelNo(c), ".", DigitChars[k + 1]>>

Text(c, k) == <<"text of ", c, "-", DigitChars[k + 1]>>

Plain(c, k) == ("ts" :> Ts(c, k)) @@ ("text" :> Text(c, k))

\* a thread parent as the API returns it
Parent(c, k, n) ==
    Plain(c, k) @@ ("thread_ts" :> Ts(c, k)) @@ ("reply_count" :> n)

\* a message that only counts its replies
Counted(c, k, n) == Plain(c, k) @@ ("reply_count" :> n)

\* a reply; one that was also sent to the channel is in its history too
Reply(c, k, root) == Plain(c, k) @@ ("thread_ts" :> Ts(c, root))

\* the thread of message 1 with n replies, the parent first
Thread(c, parent, n) == <<parent>> \o [i \in 1..n |-> Reply(c, i + 1, 1)]

Contents(c, n) ==
    { [msgs |-> <<>>, threads |-> <<>>],
      [msgs |-> <<Plain(c, 1)>>, threads |-> <<>>],
      [msgs |-> <<Plain(c, 2), Plain(c, 1)>>, threads |-> <<>>],
      [msgs |-> <<Plain(c, n + 2), Parent(c, 1, n)>>,
       threads |-> (Ts(c, 1) :> Thread(c, Parent(c, 1, n), n))],
      [msgs |-> <<Counted(c, 1, n)>>,
       threads |-> (Ts(c, 1) :> Thread(c, Counted(c, 1, n), n))],
      [msgs |-> <<Reply(c, 2, 1), Parent(c, 1, n)>>,
       threads |-> (Ts(c, 1) :> Thread(c, Parent(c, 1, n), n))] }

LookupFailures(c) ==
    { [bad |-> {}, mode |-> "raise"],
      [bad |-> {Ts(c, 2)}, mode |-> "raise"],
      [bad |-> {Ts(c, 1)}, mode |-> "not_ok"],
      [bad |-> {Ts(c, 1), Ts(c, 2), Ts(c, 3)}, mode |-> "raise"] }

Outcomes == {"ok", "not_ok", "raise"}

\* what Slack answers for one channel
ChannelAnswers(c, max) ==
    { [hist |-> h, msgs |-> <<>>, threads |-> <<>>, replies |-> "ok",
       bad |-> {}, mode |-> "raise"] : h \in {"not_ok", "raise"} }
    \cup
    UNION { { [hist |-> "ok", msgs |-> k.msgs, threads |-> k.threads, replies |-> r,
               bad |-> f.bad, mode |-> f.mode] :
                  r \in IF k.threads = <<>> THEN {"ok"} ELSE Outcomes,
                  f \in IF k.msgs = <<>> THEN {[bad |-> {}, mode |-> "raise"]}
                        ELSE LookupFailures(c) } :
            k \in UNION { Contents(c, n) : n \in 1..max } }

ChannelLists == {<<>>, <<"C1">>, <<"C2">>, <<"C1", "C2">>, <<"C2", "C1">>}

InitHarvest ==
    /\ RenderIdle /\ SyncIdle /\ MonitorIdle /\ UrlIdle /\ ParseIdle /\ DriveIdle
    /\ FetchIdle /\ NotifyIdle /\ PagesIdle /\ PerformIdle
    /\ channel_ids \in ChannelLists
    /\ \E a1 \in ChannelAnswers("C1", MaxReplies), a2 \in ChannelAnswers("C2", MaxReplies) :
          slack = [c \in Channels |->
                      IF \E i \in DOMAIN channel_ids : channel_ids[i] = c
                      THEN (IF c = "C1" THEN a1 ELSE a2)
                      ELSE [hist |-> "raise", msgs |-> <<>>, threads |-> <<>>,
                            replies |-> "ok", bad |-> {}, mode |-> "raise"]]
    /\ messages = <<>>
    /\ api_calls = <<>>
    /\ printed = <<>>
    /\ formatted = None
    /\ chan_idx = 1

(***************************************************************************)
(* src/slack-grounding-recommendations/ai_analyzer.py: _format_messages.   *)
(* The dict threads is the sequence of its items in insertion order.       *)
(***************************************************************************)

\* datetime.fromtimestamp(float(ts)).isoformat(), for a process in UTC
Iso(ts) == <<"1970-01-01T00:00:0", ts[1], ".", ts[3], "00000">>

KeyIndex(threads, key) ==
    IF \E i \in DOMAIN threads : threads[i].key = key
    THEN CHOOSE i \in DOMAIN threads : threads[i].key = key
    ELSE 0

\* threads[key].append(msg) or threads[key].insert(0, msg), after the
\* "if key not in threads: threads[key] = []"
AddToThread(threads, key, msg, first) ==
    LET ts == IF KeyIndex(threads, key) = 0
              THEN Append(threads, [key |-> key, msgs |-> <<>>]) ELSE threads
        i == KeyIndex(ts, key)
    IN  [ts EXCEPT ![i].msgs = IF first THEN <<msg>> \o @ ELSE Append(@, msg)]

\* the first for loop: group messages by thread
RECURSIVE GroupMessages(_, _)

GroupMessages(msgs, acc) ==
    IF msgs = <<>> THEN acc
    ELSE LET msg == Head(msgs)
         IN  GroupMessages(Tail(msgs),
                 IF Get(msg, "is_thread_reply", FALSE)
                 THEN [acc EXCEPT !.threads =
                          AddToThread(@, Get(msg, "parent_ts", <<>>), msg, FALSE)]
                 ELSE IF HasThreadTs(msg)
                 THEN [acc EXCEPT !.threads = AddToThread(@, msg["ts"], msg, TRUE)]
                 ELSE [acc EXCEPT !.standalone_messages = Append(@, msg)])

Grouped(msgs) == GroupMessages(msgs, [threads |-> <<>>, standalone_messages |-> <<>>])

\* one f-string of three lines
Entry(head, label, msg) ==
    <<head>> \o Iso(msg["ts"]) \o <<NL, "LINK: ">> \o Get(msg, "permalink", <<"N/A">>)
    \o <<NL, label>> \o Get(msg, "text", <<>>) \o <<NL>>

\* "\n".join(thread_text)
ThreadText(thread_messages) ==
    Join(<<NL>>,
         <<Entry("THREAD START - ", "PARENT MESSAGE: ", thread_messages[1])>>
         \o [i \in 1..(Len(thread_messages) - 1) |->
                Entry("REPLY - ", "TEXT: ", thread_messages[i + 1])]
         \o << <<"THREAD END", NL>> >>)

\* the list formatted before the final join
FormattedParts(msgs) ==
    LET g == Grouped(msgs)
    IN  [i \in DOMAIN g.threads |-> ThreadText(g.threads[i].msgs)]
        \o [i \in DOMAIN g.standalone_messages |->
               Entry("MESSAGE - ", "TEXT: ", g.standalone_messages[i])]

_format_messages(msgs) == Join(<<NL, "---", NL>>, FormattedParts(msgs))

FormatMessages ==
    /\ Harvested
    /\ formatted = None
    /\ formatted' = Some(FormattedParts(messages))
    /\ UNCHANGED <<channel_ids, slack, messages, api_calls, printed, chan_idx>>
    /\ HarvestUnchanged

NextHarvest == HarvestChannel \/ FormatMessages

SpecHarvest == InitHarvest /\ [][NextHarvest]_vars

(***************************************************************************)
(* Threads in the harvested list.                                          *)
(***************************************************************************)

IsReply(m) == Get(m, "is_thread_reply", FALSE)

\* the timestamp of the parent of the thread a message belongs to
ThreadRoot(m) == IF HasThreadTs(m) THEN m["thread_ts"] ELSE m["ts"]

\* the channels whose iteration is over
Done == {channel_ids[i] : i \in 1..(chan_idx - 1)}

\* the replies of the thread of m, without the thread parent
RepliesOf(c, m) ==
    SelectSeq(ThreadOf(slack[c], ThreadRoot(m)), LAMBDA r : r["ts"] # ThreadRoot(m))

\* m is in the list and the replies of its thread follow it, tagged
FollowedByReplies(c, m) ==
    \E p \in DOMAIN messages :
        /\ messages[p]["ts"] = m["ts"] /\ ~IsReply(messages[p])
        /\ p + Len(RepliesOf(c, m)) <= Len(messages)
        /\ \A q \in DOMAIN RepliesOf(c, m) :
               /\ messages[p + q]["ts"] = RepliesOf(c, m)[q]["ts"]
               /\ IsReply(messages[p + q])

RepliesTagged ==
    \A i \in DOMAIN messages :
        IsReply(messages[i]) =>
            /\ messages[i]["parent_ts"] = ThreadRoot(messages[i])
            /\ messages[i]["ts"] # ThreadRoot(messages[i])

NoDuplicates ==
    \A i, j \in DOMAIN messages : i # j => messages[i]["ts"] # messages[j]["ts"]

AllRepliesFetched ==
    \A c \in Done :
        (slack[c].hist = "ok" /\ slack[c].replies = "ok") =>
            \A k \in DOMAIN slack[c].msgs :
                IsThreaded(slack[c].msgs[k]) => FollowedByReplies(c, slack[c].msgs[k])

\* C21: every message of the history that counts replies or refers to a
\* thread is followed by the replies of the thread, each tagged as a reply
\* of the thread's parent; the thread parent is never appended as a reply and
\* no message is in the harvested list twice.
C21_Replies == RepliesTagged /\ NoDuplicates /\ AllRepliesFetched

\* a reply that is also in the history of the channel
InHistory(c) ==
    \E k \in DOMAIN slack[c].msgs :
        HasThreadTs(slack[c].msgs[k])
        /\ slack[c].msgs[k]["thread_ts"] # slack[c].msgs[k]["ts"]

C21_Witness ==
    /\ Harvested
    /\ \E c \in Done :
          /\ InHistory(c) /\ slack[c].hist = "ok" /\ slack[c].replies = "ok"
          /\ slack[c].bad = {}
          /\ \E i \in DOMAIN messages :
                IsReply(messages[i]) /\ messages[i]["ts"] = ThreadRoot(messages[i])

\* where the history holds thread parents and plain messages only, C21 holds
ParentsOnly == (\A c \in Done : ~InHistory(c)) => C21_Replies

\* the permalink a harvested message must carry
DuePermalink(m) ==
    IF LookupOutcome(slack[m["channel_id"]], m["ts"]) = "ok"
    THEN Permalink(m["channel_id"], m["ts"])
    ELSE ConstructedLink(m["channel_id"], m["ts"])

\* C22: every message and every reply of the harvested list carries a
\* permalink, the one the lookup returned when it succeeded and the link
\* constructed from the channel id and the timestamp when the lookup failed in
\* any way, a response that is not ok included.
C22_Permalink ==
    \A i \in DOMAIN messages :
        /\ "permalink" \in DOMAIN messages[i]
        /\ messages[i]["permalink"] = DuePermalink(messages[i])

C22_Witness ==
    /\ Harvested
    /\ \E i \in DOMAIN messages :
          /\ LookupOutcome(slack[messages[i]["channel_id"]], messages[i]["ts"]) = "not_ok"
          /\ "permalink" \notin DOMAIN messages[i]

\* where every lookup returns ok or raises SlackApiError, C22 holds
LookupsRaise ==
    (\A c \in Done : slack[c].mode = "raise") => C22_Permalink

(***************************************************************************)
(* Failures of a channel.                                                  *)
(***************************************************************************)

HistoryCalls == SelectSeq(api_calls, LAMBDA call : call[1] = "conversations_history")

\* a request made for the channel failed
ChannelFailed(c) ==
    \/ slack[c].hist # "ok"
    \/ slack[c].replies # "ok" /\ \E k \in DOMAIN slack[c].msgs : IsThreaded(slack[c].msgs[k])
    \/ \E k \in DOMAIN slack[c].msgs : LookupOutcome(slack[c], slack[c].msgs[k]["ts"]) # "ok"

\* every message of the history of c is in the list
HistoryReturned(c) ==
    \A k \in DOMAIN slack[c].msgs :
        \E p \in DOMAIN messages :
            /\ messages[p]["ts"] = slack[c].msgs[k]["ts"]
            /\ messages[p]["channel_id"] = c
            /\ ~IsReply(messages[p])

FailuresPrinted ==
    \A c \in Done :
        /\ slack[c].hist = "raise" =>
               \E i \in DOMAIN printed : printed[i] = <<"channel", c>>
        /\ (slack[c].hist = "ok" /\ slack[c].replies = "raise") =>
               \A k \in DOMAIN slack[c].msgs :
                   IsThreaded(slack[c].msgs[k]) =>
                       \E i \in DOMAIN printed :
                           printed[i] = <<"thread", slack[c].msgs[k]["ts"]>>

InThread(m) == IsReply(m) \/ IsThreaded(m)

Roots(msgs) == {ThreadRoot(msgs[i]) : i \in {j \in DOMAIN msgs : InThread(msgs[j])}}

\* the parent of the thread and the replies of the thread, in list order
ThreadMessages(msgs, root) ==
    SelectSeq(msgs, LAMBDA m : m["ts"] = root /\ ~IsReply(m))
    \o SelectSeq(msgs, LAMBDA m : InThread(m) /\ ThreadRoot(m) = root /\ m["ts"] # root)

DueParts(msgs) ==
    {ThreadText(ThreadMessages(msgs, root)) : root \in Roots(msgs)}
    \cup {Entry("MESSAGE - ", "TEXT: ", msgs[i]) : i \in {j \in DOMAIN msgs : ~InThread(msgs[j])}}

\* C27: the text has one THREAD START ... THREAD END block per thread, with the
\* thread's parent as PARENT MESSAGE and the thread's replies as REPLY entries
\* in harvest order, and one MESSAGE entry per message outside a thread, so
\* that every message is written once, with its link and ISO-8601 time.
C27_Blocks ==
    ~formatted.none =>
        /\ {formatted.val[i] : i \in DOMAIN formatted.val} = DueParts(messages)
        /\ Len(formatted.val) = Cardinality(DueParts(messages))

C27_Witness ==
    /\ ~formatted.none
    /\ \A c \in Done : slack[c].hist = "ok" /\ slack[c].replies = "ok" /\ slack[c].bad = {}
    /\ \E i \in DOMAIN formatted.val, j \in DOMAIN messages :
          /\ messages[j]["ts"] # ThreadRoot(messages[j])
          /\ StartsWith(formatted.val[i],
                         Entry("THREAD START - ", "PARENT MESSAGE: ", messages[j]))

\* a message that counts replies without a thread_ts of its own
CountedOnly(c) ==
    \E k \in DOMAIN slack[c].msgs :
        ~HasThreadTs(slack[c].msgs[k]) /\ IsThreaded(slack[c].msgs[k])

\* where the history holds thread parents with their thread_ts and plain
\* messages only, C27 holds
ParentsFormatted ==
    (\A c \in Done : ~InHistory(c) /\ ~CountedOnly(c)) => C27_Blocks

----------------------------------------------------------------------------
(***************************************************************************)
(* _parse_suggestions on a response with a malformed suggestion block: a   *)
(* block that lacks one of the labeled bullets, or has two of them in the  *)
(* wrong order.                                                            *)
(***************************************************************************)

Labels == <<L_LINK, L_CONTEXT, L_TEXT, L_BLOCK, L_CONFLICT, L_EDIT, L_REASON, L_CONF>>

Bullets(v) ==
    << Bullet(L_LINK, FALSE, v.source_message_link),
       Bullet(L_CONTEXT, FALSE, v.thread_context),
       Bullet(L_TEXT, TRUE, v.triggering_text),
       Bullet(L_BLOCK, TRUE, v.block_id),
       Bullet(L_CONFLICT, TRUE, v.conflicting_text),
       Bullet(L_EDIT, TRUE, v.suggested_edit),
       Bullet(L_REASON, FALSE, v.reasoning),
       Bullet(L_CONF, FALSE, v.confidence_score) >>

BlockOf(n, bullets) == SUGGESTION \o <<" ", n, "*", "*", NL>> \o Flatten(bullets)

Without(bullets, i) == SubSeq(bullets, 1, i - 1) \o SubSeq(bullets, i + 1, Len(bullets))

Swapped(bullets, i) ==
    [k \in DOMAIN bullets |->
        IF k = i THEN bullets[i + 1] ELSE IF k = i + 1 THEN bullets[i] ELSE bullets[k]]

MalformedBlocks(n, v) ==
    {BlockOf(n, Without(Bullets(v), i)) : i \in 1..Len(Labels)}
    \cup {BlockOf(n, Swapped(Bullets(v), i)) : i \in 1..(Len(Labels) - 1)}

\* the well-formed blocks around the malformed one
GoodValue ==
    [ source_message_link |-> <<"g">>, thread_context |-> <<"c">>,
      triggering_text |-> <<"q">>, block_id |-> <<"b", "9">>,
      conflicting_text |-> <<"o">>, suggested_edit |-> <<"e">>,
      reasoning |-> <<"r">>, confidence_score |-> <<"L", "o", "w">> ]

\* responses of 1..max blocks, one of which is malformed
MalformedResponses(max) ==
    UNION { UNION { { Join(<<NL>>, [k \in 1..n |->
                          IF k = bad THEN block
                          ELSE SuggestionBlock(Numerals[k], GoodValue)]) :
                      block \in UNION { MalformedBlocks(Numerals[bad], v) :
                                         v \in SuggestionValues } } :
                    bad \in 1..n } :
            n \in 1..max }

InitMalformed ==
    /\ RenderIdle /\ SyncIdle /\ MonitorIdle /\ UrlIdle /\ DriveIdle /\ FetchIdle
    /\ NotifyIdle /\ HarvestIdle /\ PagesIdle /\ PerformIdle
    /\ ai_response \in MalformedResponses(MaxSuggestions)
    /\ suggestions = <<>>
    /\ ppc = "call"

SpecMalformed == InitMalformed /\ [][NextParse]_vars

\* every labeled marker is in the block, in the order of the format
WellFormed(part) ==
    /\ \A i \in DOMAIN Labels : PyFind(part, Labels[i]) # -1
    /\ \A i \in 1..(Len(Labels) - 1) : PyFind(part, Labels[i]) < PyFind(part, Labels[i + 1])

BlocksOf(resp) == Tail(PySplit(resp, SUGGESTION))

\* C24: a suggestion block in which a labeled marker is missing or out of
\* order gives no record, and every well-formed block of the response gives
\* its record: the records are those of the well-formed blocks, in order.
C24_Skipped ==
    ppc = "done" =>
        suggestions =
            [k \in DOMAIN SelectSeq(BlocksOf(ai_response), WellFormed) |->
                parse_part(SelectSeq(BlocksOf(ai_response), WellFormed)[k])]

\* a record was returned for a block without its "Thread Context" marker
C24_Witness ==
    /\ ppc = "done"
    /\ \E k \in DOMAIN BlocksOf(ai_response) :
          /\ PyFind(BlocksOf(ai_response)[k], L_CONTEXT) = -1
          /\ k \in DOMAIN suggestions
          /\ suggestions[k] = parse_part(BlocksOf(ai_response)[k])

\* what does hold: every block gives a record, and the record of a
\* well-formed block is the same whatever its neighbours are
NoBlockSkipped ==
    ppc = "done" =>
        /\ Len(suggestions) = Len(BlocksOf(ai_response))
        /\ \A k \in DOMAIN suggestions : suggestions[k] = parse_part(BlocksOf(ai_response)[k])

----------------------------------------------------------------------------
(***************************************************************************)
(* A failed completion call, and the order of the steps of a job.          *)
(***************************************************************************)

\* the completion call of job k failed
CompletionFailed(k) ==
    \E i \in DOMAIN job_calls :
        job_calls[i] = Call(k, "completion", "raise", 0)

PostsOf(k) == SelectSeq(job_calls, LAMBDA e : e.job = k /\ e.call = "post")

\* the loop over the jobs went on after job k
WentOn(k) ==
    /\ mpc \in {"loop", "done"}
    /\ m_response # Some(MonitorError)
    /\ mpc = "done" => attempted = AllJobs /\ Len(ended) = NumJobs

\* C25 as stated: a failed completion call reaches process_monitoring_job as
\* an exception, so the job ends in its except clause; nothing is posted for
\* the job and the jobs after it are processed.
C25_Surfaced ==
    \A k \in 1..NumJobs :
        CompletionFailed(k) =>
            /\ k <= Len(ended) /\ ended[k] = "error"
            /\ PostsOf(k) = <<>>
            /\ WentOn(k)

\* C25: a failed completion call is caught inside generate_suggestions, which
\* returns an empty list: the job ends normally, not in its except clause;
\* nothing is posted for the job and the jobs after it are processed.
C25_Swallowed ==
    \A k \in 1..NumJobs :
        CompletionFailed(k) =>
            /\ k <= Len(ended) /\ ended[k] = "processed"
            /\ PostsOf(k) = <<>>
            /\ \A i \in DOMAIN posted : posted[i] # k
            /\ WentOn(k)

\* the completion of the first job failed, the second job posted a message
C25_Witness ==
    /\ mpc = "done"
    /\ CompletionFailed(1)
    /\ ended = <<"processed", "processed">>
    /\ posted = <<2>>

CallsOf(k) == SelectSeq(job_calls, LAMBDA e : e.job = k)

StepOrder == <<"owner", "slack_id", "blocks", "messages", "completion">>

\* C29: the calls of a job are a beginning of: owner email, recipient id,
\* node list, message list, completion, then one post per record in record
\* order; a call that finds nothing or raises is the last call of the job, so
\* the completion is called at most once and only after the four values
\* were found, and nothing is posted without a record of the completion.
C29_Steps ==
    \A k \in 1..NumJobs :
        /\ \A i \in DOMAIN CallsOf(k) :
              /\ i <= Len(StepOrder) => CallsOf(k)[i].call = StepOrder[i]
              /\ i > Len(StepOrder) =>
                    /\ CallsOf(k)[i].call = "post"
                    /\ CallsOf(k)[i].n = i - Len(StepOrder)
                    /\ CallsOf(k)[i].n <= CallsOf(k)[Len(StepOrder)].n
              /\ (i < Len(CallsOf(k)) /\ i <= Len(StepOrder)) => CallsOf(k)[i].res = "value"
              /\ (i < Len(CallsOf(k)) /\ i > Len(StepOrder)) => CallsOf(k)[i].res # "raise"
              /\ (i <= Len(StepOrder) /\ CallsOf(k)[i].res # "value") => k <= Len(ended)
        /\ (k <= Len(ended) /\ ended[k] = "processed" /\ Len(CallsOf(k)) >= Len(StepOrder)) =>
              Len(PostsOf(k)) = CallsOf(k)[Len(StepOrder)].n
        /\ Cardinality({i \in DOMAIN posted : posted[i] = k})
               = Len(SelectSeq(PostsOf(k), LAMBDA e : e.res = "value"))

\* the first job ended for want of messages, the second posted two records
C29_Witness ==
    /\ mpc = "done"
    /\ ended = <<"no messages", "processed">>
    /\ Len(CallsOf(1)) = 4
    /\ Len(CallsOf(2)) = Len(StepOrder) + 2
    /\ posted = <<2, 2>>

----------------------------------------------------------------------------
(***************************************************************************)
(* The two paginated loops, one request a step:                            *)
(* src/notion-drive-sync/main.py fetch_all_blocks, with its recursion as a *)
(* stack of activations, and                                               *)
(* src/slack-grounding-recommendations/notion_client.py get_page_blocks,   *)
(* with _extract_block_text and ai_analyzer.py _format_blocks.             *)
(***************************************************************************)

\* the cursor is never advanced (what the loops do not do)
first_cursor_again(res) == None

\* cursor = res.get("next_cursor") / start_cursor = response.get("next_cursor")
following_cursor(res) == res.next_cursor

PagesUnchanged ==
    UNCHANGED <<renderVars, syncVars, monitorVars, urlVars, parseVars, driveVars,
                fetchVars, notifyVars, harvestVars, performVars>>

Activation(block_id) == [block_id |-> block_id, cursor |-> None, blocks |-> <<>>, k |-> 0]

Top == stack[Len(stack)]

\* one iteration of the while True loop of the innermost fetch_all_blocks
FetchListPage(ok) ==
    /\ loop = "fetch_all_blocks"
    /\ stack # <<>> /\ Top.k = 0
    /\ list_requests' = Append(list_requests,
                               [block_id |-> Top.block_id, start_cursor |-> Top.cursor])
    /\ IF ~ok
       THEN /\ stack' = <<>>
            /\ list_result' = Some([raised |-> TRUE, blocks |-> <<>>, printed |-> FALSE])
       ELSE /\ \E res \in {Serve(Top.block_id, Top.cursor)} :
                  stack' = [stack EXCEPT ![Len(stack)] =
                      [@ EXCEPT !.blocks = @ \o [i \in DOMAIN res.results |->
                                                    [id |-> res.results[i].id,
                                                     has_children |-> res.results[i].has_children,
                                                     children |-> None]],
                                !.cursor = IF more_pages(res) THEN following_cursor(res) ELSE @,
                                !.k = IF more_pages(res) THEN 0 ELSE 1]]
            /\ UNCHANGED list_result
    /\ UNCHANGED <<loop, page_has_more, page_cursor, page_blocks, prompt_blocks>>
    /\ PagesUnchanged

\* one step of the for loop of the innermost fetch_all_blocks: the next
\* block, the recursive call for a block with children, or the return
FetchForBlock ==
    /\ loop = "fetch_all_blocks"
    /\ stack # <<>> /\ Top.k >= 1
    /\ IF Top.k <= Len(Top.blocks)
       THEN /\ stack' = IF Top.blocks[Top.k].has_children
                        THEN Append(stack, Activation(Top.blocks[Top.k].id))
                        ELSE [stack EXCEPT ![Len(stack)].k = @ + 1]
            /\ UNCHANGED list_result
       ELSE IF Len(stack) = 1
            THEN /\ stack' = <<>>
                 /\ list_result' = Some([raised |-> FALSE, blocks |-> Top.blocks,
                                         printed |-> FALSE])
            ELSE /\ stack' = [SubSeq(stack, 1, Len(stack) - 1) EXCEPT ![Len(stack) - 1] =
                                 [@ EXCEPT !.blocks[@.k].children = Some(Top.blocks),
                                           !.k = @ + 1]]
                 /\ UNCHANGED list_result
    /\ UNCHANGED <<loop, page_has_more, page_cursor, page_blocks, list_requests, prompt_blocks>>
    /\ PagesUnchanged

\* a node of a page as get_page_blocks reads it: block[type]["rich_text"],
\* block["table"]["rows"] and block["code"]["language"], empty where absent
Node(id, type, rich_text, rows, language) ==
    [id |-> id, type |-> type, rich_text |-> rich_text, rows |-> rows, language |-> language]

TextTypes ==
    {"paragraph", "heading_1", "heading_2", "heading_3", "bulleted_list_item",
     "numbered_list_item"}

\* "".join(text.get("plain_text", "") for text in rich_text)
PlainText(rich_text) == Flatten(rich_text)

FENCE == <<BACKTICK, BACKTICK, BACKTICK>>

\* the language left out of the text of a code block (what the code does not do)
code_text_without_language(block) ==
    FENCE \o <<NL>> \o PlainText(block.rich_text) \o <<NL>> \o FENCE

\* f"```{language}\n{text}\n```"
code_text(block) ==
    FENCE \o block.language \o <<NL>> \o PlainText(block.rich_text) \o <<NL>> \o FENCE

_extract_block_text(block) ==
    IF block.type \in TextTypes THEN Some(PlainText(block.rich_text))
    ELSE IF block.type = "table"
    THEN Some(Join(<<NL>>,
                   [r \in DOMAIN block.rows |->
                       Join(<<" | ">>, [c \in DOMAIN block.rows[r] |->
                                           PlainText(block.rows[r][c])])]))
    ELSE IF block.type = "code" THEN Some(code_text(block))
    ELSE None

\* the for loop over response["results"]
RECURSIVE Condensed(_)

Condensed(results) ==
    IF results = <<>> THEN <<>>
    ELSE (IF Truthy(_extract_block_text(Head(results)))
          THEN << [id |-> Head(results).id,
                   content |-> _extract_block_text(Head(results)).val,
                   type |-> Head(results).type] >>
          ELSE <<>>)
         \o Condensed(Tail(results))

\* one iteration of the while has_more loop of get_page_blocks; the except
\* clause and the return follow the last one
GetPageBlocksRequest(ok) ==
    /\ loop = "get_page_blocks"
    /\ list_result = None
    /\ page_has_more
    /\ list_requests' = Append(list_requests,
                               [block_id |-> ROOT, start_cursor |-> page_cursor])
    /\ IF ~ok
       THEN /\ list_result' = Some([raised |-> FALSE, blocks |-> page_blocks,
                                    printed |-> TRUE])
            /\ UNCHANGED <<page_has_more, page_cursor, page_blocks>>
       ELSE \E res \in {Serve(ROOT, page_cursor)} :
                /\ page_blocks' = page_blocks \o Condensed(res.results)
                /\ page_has_more' = res.has_more
                /\ page_cursor' = following_cursor(res)
                /\ list_result' = IF res.has_more THEN None
                                  ELSE Some([raised |-> FALSE, blocks |-> page_blocks',
                                             printed |-> FALSE])
    /\ UNCHANGED <<loop, stack, prompt_blocks>>
    /\ PagesUnchanged

_format_blocks(blks) ==
    Join(<<NL, "---", NL>>,
         [i \in DOMAIN blks |->
             <<"BLOCK_ID: ">> \o blks[i].id \o <<NL, "TYPE: ", blks[i].type, NL, "CONTENT: ">>
             \o blks[i].content \o <<NL>>])

\* formatted_blocks = self._format_blocks(notion_blocks), for the non-empty
\* list process_monitoring_job hands on
FormatBlocks ==
    /\ loop = "get_page_blocks"
    /\ list_result # None /\ list_result.val.blocks # <<>>
    /\ prompt_blocks = None
    /\ prompt_blocks' = Some(_format_blocks(list_result.val.blocks))
    /\ UNCHANGED <<loop, stack, page_has_more, page_cursor, page_blocks, list_requests,
                   list_result>>
    /\ PagesUnchanged

MaxListed == 2    \* nodes of a page read by get_page_blocks

NodeId(k) == <<"b", DigitChars[k + 1]>>

NodeSamples(k) ==
    { Node(NodeId(k), "paragraph", << <<"a", "b">>, <<"c">> >>, <<>>, <<>>),
      Node(NodeId(k), "paragraph", <<>>, <<>>, <<>>),
      Node(NodeId(k), "heading_2", << <<"H">> >>, <<>>, <<>>),
      Node(NodeId(k), "quote", << <<"q">> >>, <<>>, <<>>),
      Node(NodeId(k), "divider", <<>>, <<>>, <<>>),
      Node(NodeId(k), "table", <<>>,
           << << << <<"x">> >>, << <<"y">>, <<"z">> >> >>, << << <<"1">> >>, <<>> >> >>, <<>>),
      Node(NodeId(k), "table", <<>>, <<>>, <<>>),
      Node(NodeId(k), "code", << <<"i", "=", "1">> >>, <<>>, <<"p", "y">>),
      Node(NodeId(k), "code", <<>>, <<>>, <<>>) }

RECURSIVE Docs(_)
Docs(n) ==
    IF n = 0 THEN {<<>>}
    ELSE Docs(n - 1) \cup
         { Append(d, node) : d \in {e \in Docs(n - 1) : Len(e) = n - 1},
                             node \in NodeSamples(n) }

PageServers(max) ==
    { [b \in {ROOT} |->
          [i \in DOMAIN Chunk(doc, psize) |->
              [results |-> Chunk(doc, psize)[i], has_more |-> i < Len(Chunk(doc, psize))]]] :
      doc \in Docs(max), psize \in {1, 2} }

InitPages ==
    /\ RenderIdle /\ SyncIdle /\ MonitorIdle /\ UrlIdle /\ ParseIdle /\ DriveIdle
    /\ NotifyIdle /\ HarvestIdle /\ PerformIdle
    /\ fail_at = 0 /\ fetched = None /\ uploads = <<>> /\ fpc = "idle"
    /\ \/ /\ loop = "fetch_all_blocks"
          /\ server \in UNION { Servers(n) : n \in 0..MaxBlocks }
          /\ stack = <<Activation(ROOT)>>
       \/ /\ loop = "get_page_blocks"
          /\ server \in PageServers(MaxListed)
          /\ stack = <<>>
    /\ page_has_more = TRUE
    /\ page_cursor = None
    /\ page_blocks = <<>>
    /\ list_requests = <<>>
    /\ list_result = None
    /\ prompt_blocks = None

NextPages ==
    \/ \E ok \in BOOLEAN : FetchListPage(ok)
    \/ FetchForBlock
    \/ \E ok \in BOOLEAN : GetPageBlocksRequest(ok)
    \/ FormatBlocks

SpecPages == InitPages /\ [][NextPages]_vars

\* the loops are sequential code: a step that can be taken is taken
SpecPagesLive == SpecPages /\ WF_vars(NextPages)

\* the step-by-step fetch returns what fetch_all_blocks returns
SameAsFetchAllBlocks ==
    (loop = "fetch_all_blocks" /\ list_result # None /\ ~list_result.val.raised) =>
        /\ list_result.val.blocks = fetch_all_blocks(ROOT, <<>>).blocks
        /\ list_requests = fetch_all_blocks(ROOT, <<>>).requests

(***************************************************************************)
(* The condensed rendering of a page.                                      *)
(***************************************************************************)

\* the nodes of the document, over all its pages
AllNodes == Flatten([i \in DOMAIN server[ROOT] |-> server[ROOT][i].results])

\* the text of a node: the rows of a table, one a line, the cells of a row
\* joined by " | "; the language and the body of a code node inside a fence;
\* the text of a paragraph, a heading or a list item; none for any other node
CellText(cell) == Flatten(cell)

RowText(row) == Join(<<" | ">>, [c \in DOMAIN row |-> CellText(row[c])])

DueText(node) ==
    CASE node.type = "table" -> Join(<<NL>>, [r \in DOMAIN node.rows |-> RowText(node.rows[r])])
      [] node.type = "code" ->
             FENCE \o node.language \o <<NL>> \o Flatten(node.rich_text) \o <<NL>> \o FENCE
      [] node.type \in TextTypes -> Flatten(node.rich_text)
      [] OTHER -> <<>>

DueRecord(node) == [id |-> node.id, content |-> DueText(node), type |-> node.type]

RecordText(rec) ==
    <<"BLOCK_ID: ">> \o rec.id \o <<NL, "TYPE: ", rec.type, NL, "CONTENT: ">>
    \o rec.content \o <<NL>>

DuePrompt(recs) == Join(<<NL, "---", NL>>, [i \in DOMAIN recs |-> RecordText(recs[i])])

\* get_page_blocks has read every page
AllPagesRead ==
    /\ loop = "get_page_blocks"
    /\ list_result # None /\ ~list_result.val.printed

HasText(node) == DueText(node) # <<>>

MaxOf(S) == CHOOSE x \in S : \A y \in S : x >= y

\* the requests made for the same parent before request x
Earlier(x) ==
    {y \in 1..(x - 1) : list_requests[y].block_id = list_requests[x].block_id}

\* the result pages of a parent: up to the first that reports no further page
ChainLength(b) ==
    IF server[b] = <<>> THEN 1
    ELSE Min({i \in DOMAIN server[b] : ~server[b][i].has_more})

RequestsFor(b) == {x \in DOMAIN list_requests : list_requests[x].block_id = b}

\* the first request for a parent has no cursor, every other one has the
\* cursor the page before it returned; no request is made twice; a loop that
\* ended without a failed request has made one request per result page
CursorChain ==
    /\ \A x \in DOMAIN list_requests :
          IF Earlier(x) = {} THEN list_requests[x].start_cursor = None
          ELSE LET before == Serve(list_requests[x].block_id,
                                   list_requests[MaxOf(Earlier(x))].start_cursor)
               IN  before.has_more /\ list_requests[x].start_cursor = before.next_cursor
    /\ \A x, y \in DOMAIN list_requests : x # y => list_requests[x] # list_requests[y]
    /\ (list_result # None /\ ~list_result.val.raised /\ ~list_result.val.printed) =>
          \A b \in DOMAIN server :
              RequestsFor(b) # {} => Cardinality(RequestsFor(b)) = ChainLength(b)

\* C30: both loops terminate on every finite document whose page chains are
\* finite; they make one request per result page of a parent, each with the
\* cursor the page before returned, and none twice.
C30_Terminates == <>(list_result # None) /\ []CursorChain

\* fetch_all_blocks has returned after reading a root list of two pages and
\* the list of a child
C30_Witness ==
    /\ list_result # None /\ ~list_result.val.raised /\ ~list_result.val.printed
    /\ Len(server[ROOT]) = 2 /\ server[ROOT][1].has_more
    /\ Cardinality(RequestsFor(ROOT)) = 2
    /\ loop = "fetch_all_blocks"
    /\ Len(list_requests) > 2

----------------------------------------------------------------------------
(* src/notion-drive-sync/main.py: _perform_sync from its first statement   *)
(* to its last, with its locals page, blocks, metadata_lines, txt_content  *)
(* and html_str. Every call it makes can raise, and the page and its       *)
(* blocks can be edited in Notion while the sync runs.                     *)

SyncSteps == <<"retrieve", "fetch", "metadata", "txt", "gdoc">>

\* the statement _perform_sync goes to when a step has returned
Following(step) ==
    CASE step = "retrieve" -> "fetch"
      [] step = "fetch" -> "metadata"
      [] step = "metadata" -> "txt"
      [] step = "txt" -> "gdoc"
      [] OTHER -> "done"

\* the exception is dropped and the next statement runs
after_failure_goes_on(step) == Following(step)

\* except Exception as exc: logging.exception("Background sync failed: ...")
after_failure(step) == "failed"

\* a step as attempted: whether it returned, and what it returned
Step(step, ok, got) == [step |-> step, ok |-> ok, got |-> got]

Attempt(step, ok, got) ==
    /\ sync_steps' = Append(sync_steps, Step(step, ok, got))
    /\ sync_pc' = IF ok THEN Following(step) ELSE after_failure(step)

PerformUnchanged ==
    /\ UNCHANGED <<prop, prop_value, rpc>>
    /\ UNCHANGED <<syncVars, monitorVars, urlVars, parseVars, driveVars, fetchVars,
                   notifyVars, harvestVars, pagesVars>>

\* page = notion.pages.retrieve(page_id); title = _extract_title(page)
SyncRetrieve(ok) ==
    /\ sync_pc = "retrieve"
    /\ page' = IF ok THEN notion_page ELSE page
    /\ Attempt("retrieve", ok, IF ok THEN notion_page ELSE None)
    /\ UNCHANGED <<blocks, metadata_lines, txt_content, html_str, notion_page, notion_tree,
                   artifacts>>
    /\ PerformUnchanged

\* blocks = fetch_all_blocks(page_id)
SyncFetch(ok) ==
    /\ sync_pc = "fetch"
    /\ blocks' = IF ok THEN notion_tree ELSE blocks
    /\ Attempt("fetch", ok, IF ok THEN notion_tree ELSE None)
    /\ UNCHANGED <<page, metadata_lines, txt_content, html_str, notion_page, notion_tree,
                   artifacts>>
    /\ PerformUnchanged

\* metadata_lines = build_metadata(page)
SyncMetadata ==
    /\ sync_pc = "metadata"
    /\ LET r == build_metadata(page, UtcNow)
       IN  /\ metadata_lines' = IF r.raised THEN metadata_lines ELSE r.lines
           /\ Attempt("metadata", ~r.raised, IF r.raised THEN None ELSE r.lines)
    /\ UNCHANGED <<page, blocks, txt_content, html_str, notion_page, notion_tree, artifacts>>
    /\ PerformUnchanged

\* what create_drive_file leaves in Drive when it returns
Artifact(name, folder_id, convert_to_gdoc, body) ==
    LET metadata == upload_metadata(name, folder_id, convert_to_gdoc)
    IN  [name |-> metadata.name, parents |-> metadata.parents,
         mimeType |-> metadata.mimeType, body |-> body]

\* txt_content = ...; the temporary file; create_drive_file(f"{...}.txt", ...)
SyncTxt(ok) ==
    /\ sync_pc = "txt"
    /\ txt_content' = Join(<<NL>>, metadata_lines) \o <<NL, NL>> \o blocks_to_plaintext(blocks)
    /\ artifacts' = IF ok
                    THEN Append(artifacts,
                                Artifact(sanitize(_extract_title(page)) \o <<".", "t", "x", "t">>,
                                         DRIVE_TXT_FOLDER_ID, FALSE, txt_content'))
                    ELSE artifacts
    /\ Attempt("txt", ok, IF ok THEN Some(Len(artifacts')) ELSE None)
    /\ UNCHANGED <<page, blocks, metadata_lines, html_str, notion_page, notion_tree>>
    /\ PerformUnchanged

\* html_str = assemble_html(...); the temporary file; create_drive_file(...)
SyncGdoc(ok) ==
    /\ sync_pc = "gdoc"
    /\ html_str' = assemble_html(metadata_lines, blocks)
    /\ artifacts' = IF ok
                    THEN Append(artifacts,
                                Artifact(sanitize(_extract_title(page)), DRIVE_GDOC_FOLDER_ID,
                                         TRUE, html_str'))
                    ELSE artifacts
    /\ Attempt("gdoc", ok, IF ok THEN Some(Len(artifacts')) ELSE None)
    /\ UNCHANGED <<page, blocks, metadata_lines, txt_content, notion_page, notion_tree>>
    /\ PerformUnchanged

\* somebody edits the page or its blocks in Notion while the sync runs
Edit(pg, tree) ==
    /\ sync_pc \in {"retrieve", "fetch", "metadata", "txt", "gdoc"}
    /\ <<pg, tree>> # <<notion_page, notion_tree>>
    /\ notion_page' = pg
    /\ notion_tree' = tree
    /\ UNCHANGED <<page, blocks, metadata_lines, txt_content, html_str, sync_steps, artifacts,
                   sync_pc>>
    /\ PerformUnchanged

\* the pages the sync is run on: those of the renderers, and one a property
\* of which is null, for which build_metadata raises
SyncPages == RenderPages \cup {CHOOSE pg \in NullPropPages : TRUE}

SyncTrees == {<<>>, TitleBody, QandA, UnknownParent}

InitPerform ==
    /\ RenderIdle /\ SyncIdle /\ MonitorIdle /\ UrlIdle /\ ParseIdle /\ DriveIdle /\ FetchIdle
    /\ NotifyIdle /\ HarvestIdle /\ PagesIdle
    /\ notion_page \in SyncPages
    /\ notion_tree \in SyncTrees
    /\ sync_steps = <<>>
    /\ artifacts = <<>>
    /\ sync_pc = "retrieve"

NextPerform ==
    \/ \E ok \in BOOLEAN : SyncRetrieve(ok)
    \/ \E ok \in BOOLEAN : SyncFetch(ok)
    \/ SyncMetadata
    \/ \E ok \in BOOLEAN : SyncTxt(ok)
    \/ \E ok \in BOOLEAN : SyncGdoc(ok)
    \/ \E pg \in SyncPages, tree \in SyncTrees : Edit(pg, tree)

SpecPerform == InitPerform /\ [][NextPerform]_vars

\* the step has been attempted and has returned
StepReturned(step) == \E k \in DOMAIN sync_steps : sync_steps[k].step = step /\ sync_steps[k].ok

\* what the step returned
Got(step) == sync_steps[CHOOSE k \in DOMAIN sync_steps : sync_steps[k].step = step].got

\* the steps attempted are the first ones of the list, in its order
StepsInOrder ==
    /\ Len(sync_steps) <= Len(SyncSteps)
    /\ \A k \in DOMAIN sync_steps : sync_steps[k].step = SyncSteps[k]

\* a step that raised is the last one attempted, and the sync has ended
FailureEnds ==
    \A k \in DOMAIN sync_steps :
        ~sync_steps[k].ok => k = Len(sync_steps) /\ sync_pc = "failed"

\* Drive holds the text artifact from the moment its upload returned, and the
\* converted document only after it
TextArtifactKept ==
    /\ Len(artifacts) = Cardinality({ s \in {"txt", "gdoc"} : StepReturned(s) })
    /\ StepReturned("txt") => artifacts[1].mimeType = None
    /\ StepReturned("gdoc") => artifacts[2].mimeType = Some(GDOC_MIME)

\* both bodies come from the tree the one fetch returned and the lines the
\* one build_metadata returned
SameTreeAndLines ==
    /\ StepReturned("txt") =>
          artifacts[1].body = Join(<<NL>>, Got("metadata")) \o <<NL, NL>>
                                  \o blocks_to_plaintext(Got("fetch"))
    /\ StepReturned("gdoc") =>
          artifacts[2].body = assemble_html(Got("metadata"), Got("fetch"))

\* C28: the background sync attempts page retrieve, block-tree fetch,
\* metadata assembly, plain-text upload and converted-document upload in that
\* order; a step that fails is the last one attempted; the plain-text artifact
\* stays in Drive when the second upload fails; both uploaded bodies are built
\* from the same fetched tree and the same metadata line list.
C28_SyncSteps == StepsInOrder /\ FailureEnds /\ TextArtifactKept /\ SameTreeAndLines

\* the second upload failed after the first returned, and the blocks were
\* edited in Notion after the fetch
C28_Witness ==
    /\ sync_pc = "failed"
    /\ Len(sync_steps) = 5
    /\ Len(artifacts) = 1
    /\ notion_tree # blocks

\* both uploads returned after the blocks were edited in Notion
BothUploaded == sync_pc = "done" /\ Len(artifacts) = 2 /\ notion_tree # blocks

====
